---- MODULE Spec2Model ----
(***************************************************************************)
(* tt-jukebox: the matching and reconciliation engine of tt-jukebox.py.    *)
(*                                                                         *)
(* Python values are represented as follows.                               *)
(*   str   a sequence of one-character strings, <<"N","1","5","0">>        *)
(*   None  the sentinel PyNone (a sequence no str can be equal to)         *)
(*   dict  a function from its present keys to their values; a key that    *)
(*         the dict lacks is not in DOMAIN                                  *)
(*   list of dict objects: a sequence of object identities; the objects    *)
(*         themselves live in heap, so that an in-place assignment         *)
(*         spec['k'] = v is visible through every list holding the object  *)
(***************************************************************************)
EXTENDS Integers, Sequences, FiniteSets, TLC

VARIABLES
    pc,                   \* position of the run
    heap,                 \* object identity -> dict (the record objects)
    specs,                \* list of records handed to the operation
    hardware,             \* detected hardware identifier
    include_experimental, \* args.show_experimental
    validated,            \* first list returned by filter_by_hardware
    experimental,         \* second list returned by filter_by_hardware
    model_query,          \* args.model
    task,                 \* args.task
    matches,              \* list returned by match_model_name / match_task
    selected,             \* the record handed to check_environment_match
    metal_info,           \* detect_tt_metal() result
    vllm_info,            \* detect_tt_vllm() result
    match_info,           \* dict returned by check_environment_match
    all_specs,            \* main: the candidates given to the matcher
    conservative_spec,    \* record returned by apply_conservative_params
    raised,               \* name of the exception that escaped, "" if none
    model_info,           \* detect_model_download() result
    commands,             \* launch parameters built by format_cli_command
    remote,               \* the catalog document at the remote source
    cache_file,           \* content of model_specs.json, None if missing
    cache_timestamp,      \* content of model_specs_timestamp.txt
    now,                  \* time.time()
    fetch_call,           \* the last fetch_model_specs call: argument and course
    argv,                 \* start-vllm-server.py: sys.argv
    force,                \* args.force
    stdin,                \* the terminal: not a tty, at end of file, or a line
    hf_token,             \* 'HF_TOKEN' in os.environ
    downloaded,           \* a model directory of the record is on disk
    setup_steps,          \* the commands execute_setup has started, in order
    success,              \* what execute_setup returned, "" before it returns
    table,                \* TUI: the match indicator of each table row
    detail,               \* TUI: the status line of the detail panel
    current_command,      \* TUI: CommandPreviewPanel.current_command
    notice                \* TUI: the last notification of the copy action

\* the variables of the later stages of a run
run_vars == <<all_specs, conservative_spec, raised, model_info, commands>>

\* the remote source, the cache files and the clock
cache_vars == <<remote, cache_file, cache_timestamp, now>>

\* what the stages beside the selection leave behind
setup_vars == <<force, stdin, hf_token, downloaded, setup_steps, success>>

\* what the TUI shows
tui_vars == <<table, detail, current_command, notice>>

side_vars == <<fetch_call, argv, setup_vars, tui_vars>>

vars == <<pc, heap, specs, hardware, include_experimental, validated,
          experimental, model_query, task, matches, selected, metal_info,
          vllm_info, match_info, run_vars, cache_vars, side_vars>>

-----------------------------------------------------------------------------
(* Bounds *)

\* longest catalog given to filter_by_hardware
MaxFilterCatalog == 2

\* longest list of records given to match_model_name and match_task
MaxCatalog == 3

-----------------------------------------------------------------------------
(* Python built-ins *)

PyNone == <<"None-object">>

EmptyDict == [k \in {} |-> <<>>]

\* bool(x) for a str-or-None value
Truthy(x) == x # <<>> /\ x # PyNone

\* d.get(k, default)
Get(d, k, default) == IF k \in DOMAIN d THEN d[k] ELSE default

\* d[k] = v
Put(d, k, v) == [x \in (DOMAIN d) \cup {k} |-> IF x = k THEN v ELSE d[x]]

\* the upper-case letter of each lower-case letter
to_upper ==
    [a |-> "A", b |-> "B", c |-> "C", d |-> "D", e |-> "E", f |-> "F", g
     |-> "G", h |-> "H", i |-> "I", j |-> "J", k |-> "K", l |-> "L", m |->
     "M", n |-> "N", o |-> "O", p |-> "P", q |-> "Q", r |-> "R", s |-> "S",
     t |-> "T", u |-> "U", v |-> "V", w |-> "W", x |-> "X", y |-> "Y", z
     |-> "Z"]

\* the lower-case letter of each upper-case letter
to_lower ==
    [A |-> "a", B |-> "b", C |-> "c", D |-> "d", E |-> "e", F |-> "f", G
     |-> "g", H |-> "h", I |-> "i", J |-> "j", K |-> "k", L |-> "l", M |->
     "m", N |-> "n", O |-> "o", P |-> "p", Q |-> "q", R |-> "r", S |-> "s",
     T |-> "t", U |-> "u", V |-> "v", W |-> "w", X |-> "x", Y |-> "y", Z
     |-> "z"]

\* str.upper()
upper(s) ==
    [i \in 1..Len(s) |-> IF s[i] \in DOMAIN to_upper THEN to_upper[s[i]] ELSE s[i]]

\* str.lower()
lower(s) ==
    [i \in 1..Len(s) |-> IF s[i] \in DOMAIN to_lower THEN to_lower[s[i]] ELSE s[i]]

\* a in b, for two str
In(a, b) ==
    /\ Len(a) <= Len(b)
    /\ \E i \in 0..(Len(b) - Len(a)) : SubSeq(b, i + 1, i + Len(a)) = a

\* w.startswith(p)
startswith(w, p) == Len(p) <= Len(w) /\ SubSeq(w, 1, Len(p)) = p

\* s[:n]
Prefix(s, n) == SubSeq(s, 1, IF n < Len(s) THEN n ELSE Len(s))

\* min(a, b, c)
min(a, b, c) ==
    LET ab == IF a <= b THEN a ELSE b IN IF ab <= c THEN ab ELSE c

\* s.split(sep) for a one-character sep: the words between the separators
RECURSIVE split_from(_, _, _, _)
split_from(s, sep, i, word) ==
    IF i > Len(s) THEN <<word>>
    ELSE IF s[i] = sep THEN <<word>> \o split_from(s, sep, i + 1, <<>>)
    ELSE split_from(s, sep, i + 1, Append(word, s[i]))

split(s, sep) == split_from(s, sep, 1, <<>>)

\* sep.join(words)
RECURSIVE join(_, _)
join(sep, words) ==
    IF words = <<>> THEN <<>>
    ELSE IF Len(words) = 1 THEN words[1]
    ELSE words[1] \o sep \o join(sep, Tail(words))

\* x in list
Member(x, list) == \E i \in 1..Len(list) : list[i] = x

\* the later stages of a run have not started
NoRun ==
    /\ all_specs = <<>>
    /\ conservative_spec = 0
    /\ raised = ""
    /\ model_info = EmptyDict
    /\ commands = EmptyDict

\* the remote source is out of reach and there are no cache files: remote
\* and cache_file are <<>> or <<document>>, cache_timestamp is <<>> or <<time>>
NoCache ==
    /\ remote = <<>>
    /\ cache_file = <<>>
    /\ cache_timestamp = <<>>
    /\ now = 0

\* no setup was asked for or run
NoSetup ==
    /\ force = FALSE
    /\ stdin = [tty |-> FALSE]
    /\ hf_token = FALSE
    /\ downloaded = FALSE
    /\ setup_steps = <<>>
    /\ success = ""

\* the TUI before its table is filled: the panels as their clear() leaves
\* them, current_command None
NoTui ==
    /\ table = <<>>
    /\ detail = "Select a model to view details"
    /\ current_command = [null |-> 0]
    /\ notice = ""

\* nothing has been fetched, set up or shown
NoSide ==
    /\ fetch_call = EmptyDict
    /\ argv = <<>>
    /\ NoSetup
    /\ NoTui

-----------------------------------------------------------------------------
(* filter_by_hardware *)

\* arch_families, in dict order
arch_families ==
    << [arch |-> <<"w","o","r","m","h","o","l","e","_","b","0">>,
        devices |-> << <<"N","1","5","0">>, <<"N","3","0","0">>,
                       <<"T","3","K">>, <<"N","1","5","0","X","4">> >>],
       [arch |-> <<"b","l","a","c","k","h","o","l","e">>,
        devices |-> << <<"P","1","0","0">>, <<"P","1","5","0">>,
                       <<"P","1","5","0","X","4">>,
                       <<"P","1","5","0","X","8">> >>] >>

\* user_arch_family with the device name compared for equality
user_arch_family_equal(hardware_upper) ==
    LET hit(i) == \E k \in 1..Len(arch_families[i].devices) :
                      arch_families[i].devices[k] = hardware_upper
    IN  IF \E i \in 1..Len(arch_families) : hit(i)
        THEN arch_families[CHOOSE i \in 1..Len(arch_families) :
                              hit(i) /\ \A j \in 1..(i - 1) : ~hit(j)].arch
        ELSE PyNone

\* the loop that finds the user's architecture family: the first family one
\* of whose device names occurs in hardware_upper, else None
user_arch_family(hardware_upper) ==
    LET hit(i) == \E k \in 1..Len(arch_families[i].devices) :
                      In(arch_families[i].devices[k], hardware_upper)
    IN  IF \E i \in 1..Len(arch_families) : hit(i)
        THEN arch_families[CHOOSE i \in 1..Len(arch_families) :
                              hit(i) /\ \A j \in 1..(i - 1) : ~hit(j)].arch
        ELSE PyNone

\* device_numbers
device_numbers ==
    << <<<<"N","1","5","0">>, 150>>, <<<<"N","3","0","0">>, 300>>,
       <<<<"T","3","K">>, 3000>>, <<<<"N","1","5","0","X","4">>, 600>>,
       <<<<"P","1","0","0">>, 100>>, <<<<"P","1","5","0">>, 150>>,
       <<<<"P","1","5","0","X","4">>, 600>>,
       <<<<"P","1","5","0","X","8">>, 1200>> >>

\* device_numbers.get(name, 0)
device_size(name) ==
    IF \E i \in 1..Len(device_numbers) : device_numbers[i][1] = name
    THEN device_numbers[CHOOSE i \in 1..Len(device_numbers) :
                           device_numbers[i][1] = name][2]
    ELSE 0

\* param_count_of with an unknown size taken as small
param_count_of_small(spec) == Get(spec, "param_count", 0)

\* spec.get('param_count'), None replaced by 999
param_count_of(spec) == Get(spec, "param_count", 999)

\* exact_device_match testing one direction only
exact_device_match_oneway(hardware_upper, device_type) ==
    In(hardware_upper, device_type)

\* the condition of the first branch: the device matches
exact_device_match(hardware_upper, device_type) ==
    In(hardware_upper, device_type) \/ In(device_type, hardware_upper)

\* status_is_experimental comparing with the lower-case word
status_is_experimental_lower(status) ==
    status = <<"e","x","p","e","r","i","m","e","n","t","a","l">>

\* status == 'EXPERIMENTAL'
status_is_experimental(status) ==
    status = <<"E","X","P","E","R","I","M","E","N","T","A","L">>

\* the three checks of the elif branch: the list compatibility_reason
compatibility_reasons(spec, hardware_upper) ==
    LET device_type == upper(spec["device_type"])
        status      == upper(Get(spec, "status", <<"U","N","K","N","O","W","N">>))
        spec_arch   == Get(Get(spec, "env_vars", EmptyDict), "ARCH_NAME", <<>>)
        family      == user_arch_family(hardware_upper)
        user_size   == device_size(hardware_upper)
        spec_size   == device_size(device_type)
        r1 == IF Truthy(spec_arch) /\ Truthy(family) /\ spec_arch = family
              THEN << <<"s","a","m","e"," ","a","r","c","h","i","t","e","c",
                        "t","u","r","e"," ","(">> \o spec_arch \o <<")">> >>
              ELSE <<>>
        r2 == IF user_size > spec_size /\ param_count_of(spec) <= 8
              THEN << <<"s","m","a","l","l","e","r"," ","m","o","d","e","l",
                        " ","o","n"," ","l","a","r","g","e","r"," ","d","e",
                        "v","i","c","e">> >>
              ELSE <<>>
        r3 == IF status_is_experimental(status)
              THEN << <<"o","f","f","i","c","i","a","l","l","y"," ","m","a",
                        "r","k","e","d"," ","e","x","p","e","r","i","m","e",
                        "n","t","a","l">> >>
              ELSE <<>>
    IN  r1 \o r2 \o r3

\* the for loop of filter_by_hardware from position i on; acc holds the two
\* lists built so far and the heap with the annotations written so far
RECURSIVE filter_loop(_, _, _, _, _)
filter_loop(list, i, hardware_upper, include, acc) ==
    IF i > Len(list) THEN acc
    ELSE
      LET id   == list[i]
          spec == acc.heap[id]
      IN  IF "device_type" \notin DOMAIN spec
          THEN filter_loop(list, i + 1, hardware_upper, include, acc)
          ELSE IF exact_device_match(hardware_upper, upper(spec["device_type"]))
          THEN filter_loop(list, i + 1, hardware_upper, include,
                   [acc EXCEPT !.validated = Append(@, id)])
          ELSE IF include
          THEN LET reasons == compatibility_reasons(spec, hardware_upper)
               IN  IF reasons # <<>>
                   THEN filter_loop(list, i + 1, hardware_upper, include,
                          [acc EXCEPT
                             !.heap[id] = Put(spec, "_compatibility_reason",
                                              join(<<",", " ">>, reasons)),
                             !.experimental = Append(@, id)])
                   ELSE filter_loop(list, i + 1, hardware_upper, include, acc)
          ELSE filter_loop(list, i + 1, hardware_upper, include, acc)

\* filter_by_hardware reading an absent device_type as '', which every
\* hardware identifier contains
filter_by_hardware_untyped(h, list, hw, include) ==
    LET untyped(id) == "device_type" \notin DOMAIN h[id]
        r == filter_loop(list, 1, upper(hw), include,
                         [validated |-> <<>>, experimental |-> <<>>, heap |-> h])
    IN  [r EXCEPT !.validated = @ \o SelectSeq(list, untyped)]

filter_by_hardware(h, list, hw, include) ==
    filter_loop(list, 1, upper(hw), include,
                [validated |-> <<>>, experimental |-> <<>>, heap |-> h])

FilterByHardware ==
    /\ pc = "filter"
    /\ LET r == filter_by_hardware(heap, specs, hardware, include_experimental)
       IN  /\ validated' = r.validated
           /\ experimental' = r.experimental
           /\ heap' = r.heap
    /\ pc' = "filtered"
    /\ UNCHANGED <<specs, hardware, include_experimental, model_query, task,
                   matches, selected, metal_info, vllm_info, match_info>>
    /\ UNCHANGED <<run_vars, cache_vars, side_vars>>

-----------------------------------------------------------------------------
(* Inputs of filter_by_hardware *)

\* records of a fetched catalog, as far as filter_by_hardware reads them
FilterRecords ==
    { [status |-> <<"E","X","P","E","R","I","M","E","N","T","A","L">>,
       env_vars |-> [ARCH_NAME |-> <<"w","o","r","m","h","o","l","e","_","b","0">>],
       param_count |-> 3],
      [device_type |-> <<"N","1","5","0","L">>,
       status |-> <<"C","O","M","P","L","E","T","E">>],
      [device_type |-> <<"n","1","5","0">>,
       status |-> <<"E","X","P","E","R","I","M","E","N","T","A","L">>,
       env_vars |-> [ARCH_NAME |-> <<"w","o","r","m","h","o","l","e","_","b","0">>],
       param_count |-> 8],
      [device_type |-> <<"N","1">>,
       status |-> <<"C","O","M","P","L","E","T","E">>, param_count |-> 70],
      [device_type |-> <<"N","1","5","0">>,
       env_vars |-> [ARCH_NAME |-> <<"w","o","r","m","h","o","l","e","_","b","0">>],
       param_count |-> 9],
      [device_type |-> <<"P","1","0","0">>,
       env_vars |-> [ARCH_NAME |-> <<"b","l","a","c","k","h","o","l","e">>],
       param_count |-> 3],
      [device_type |-> <<"P","1","0","0">>,
       status |-> <<"F","U","N","C","T","I","O","N","A","L">>,
       env_vars |-> [ARCH_NAME |-> <<"b","l","a","c","k","h","o","l","e">>],
       param_count |-> 9],
      [device_type |-> <<"P","1","0","0">>,
       status |-> <<"C","O","M","P","L","E","T","E">>],
      [device_type |-> <<"N","3","0","0">>,
       status |-> <<"e","x","p","e","r","i","m","e","n","t","a","l">>,
       env_vars |-> [ARCH_NAME |-> <<"w","o","r","m","h","o","l","e","_","b","0">>],
       param_count |-> 70],
      [device_type |-> <<"T","3","K">>, env_vars |-> EmptyDict,
       param_count |-> 8],
      [device_type |-> <<"G","A","L","A","X","Y">>,
       env_vars |-> [ARCH_NAME |-> <<>>], param_count |-> 8],
      [device_type |-> <<"p","1","5","0","x","8">>,
       status |-> <<"F","U","N","C","T","I","O","N","A","L">>,
       env_vars |-> [ARCH_NAME |-> <<"b","l","a","c","k","h","o","l","e">>],
       param_count |-> 8] }

\* hardware identifiers
Hardwares ==
    { <<"N","1","5","0">>, <<"n","3","0","0">>, <<"T","3","K">>,
      <<"P","1","0","0">>, <<"P","1","5","0","X","8">>, <<"N","1","5","0","0">>,
      <<"X","1">> }

\* the catalogs of at most max records drawn from pool
Catalogs(pool, max) == UNION { [1..n -> pool] : n \in 0..max }

\* the list holding the objects of a heap in allocation order
ListOf(h) == [i \in 1..Len(h) |-> i]

InitFilter ==
    /\ NoRun
    /\ NoCache
    /\ NoSide
    /\ pc = "filter"
    /\ heap \in Catalogs(FilterRecords, MaxFilterCatalog)
    /\ specs = ListOf(heap)
    /\ hardware \in Hardwares
    /\ include_experimental \in BOOLEAN
    /\ validated = <<>>
    /\ experimental = <<>>
    /\ model_query = <<>>
    /\ task = <<>>
    /\ matches = <<>>
    /\ selected = 0
    /\ metal_info = EmptyDict
    /\ vllm_info = EmptyDict
    /\ match_info = EmptyDict

NextFilter == FilterByHardware

SpecFilter == InitFilter /\ [][NextFilter]_vars

-----------------------------------------------------------------------------
(* Claims about filter_by_hardware *)

\* the identities held by a list
Ids(list) == { list[i] : i \in 1..Len(list) }

\* a record that has a device_type and failed the device match: the records
\* the experimental checks are made on
NonValidated(id) ==
    /\ "device_type" \in DOMAIN heap[id]
    /\ id \notin Ids(validated)

\* the annotation written on a record, empty when there is none
ReasonOf(id) == Get(heap[id], "_compatibility_reason", <<>>)

\* magnitude of a device identifier, by the table of the specification
Magnitude(name) ==
    CASE upper(name) = <<"N","1","5","0">> -> 150
      [] upper(name) = <<"N","3","0","0">> -> 300
      [] upper(name) = <<"T","3","K">> -> 3000
      [] upper(name) = <<"N","1","5","0","X","4">> -> 600
      [] upper(name) = <<"P","1","0","0">> -> 100
      [] upper(name) = <<"P","1","5","0">> -> 150
      [] upper(name) = <<"P","1","5","0","X","4">> -> 600
      [] upper(name) = <<"P","1","5","0","X","8">> -> 1200
      [] OTHER -> 0

\* the hardware names a device of the wormhole class / of the blackhole class
IsWormhole(hw) ==
    \E d \in { <<"N","1","5","0">>, <<"N","3","0","0">>, <<"T","3","K">>,
               <<"N","1","5","0","X","4">> } : In(d, upper(hw))

IsBlackhole(hw) ==
    \E d \in { <<"P","1","0","0">>, <<"P","1","5","0">>,
               <<"P","1","5","0","X","4">>, <<"P","1","5","0","X","8">> } :
        In(d, upper(hw))

\* signal 1: the record declares the architecture family of the hardware
SameFamily(id) ==
    /\ "env_vars" \in DOMAIN heap[id]
    /\ "ARCH_NAME" \in DOMAIN heap[id]["env_vars"]
    /\ \/ /\ IsWormhole(hardware)
          /\ heap[id]["env_vars"]["ARCH_NAME"] =
                 <<"w","o","r","m","h","o","l","e","_","b","0">>
       \/ /\ IsBlackhole(hardware) /\ ~IsWormhole(hardware)
          /\ heap[id]["env_vars"]["ARCH_NAME"] =
                 <<"b","l","a","c","k","h","o","l","e">>

\* signal 2: a small model on a device of larger magnitude
SmallerOnLarger(id) ==
    /\ Magnitude(hardware) > Magnitude(heap[id]["device_type"])
    /\ (IF "param_count" \in DOMAIN heap[id] THEN heap[id]["param_count"]
        ELSE 999) <= 8

\* signal 3: the record is declared experimental
DeclaredExperimental(id) ==
    /\ "status" \in DOMAIN heap[id]
    /\ upper(heap[id]["status"]) = <<"E","X","P","E","R","I","M","E","N","T","A","L">>

SmallerText ==
    <<"s","m","a","l","l","e","r"," ","m","o","d","e","l"," ","o","n"," ",
      "l","a","r","g","e","r"," ","d","e","v","i","c","e">>

\* C1: after filter_by_hardware, for either value of include_experimental,
\* the validated list holds exactly the records that have a device_type and
\* whose device_type, compared without regard to case, contains the hardware
\* string or is contained in it; the status plays no part.
C1_ValidatedIsContainment ==
    pc = "filtered" =>
        Ids(validated) =
            { id \in Ids(specs) :
                /\ "device_type" \in DOMAIN heap[id]
                /\ \/ In(lower(hardware), lower(heap[id]["device_type"]))
                   \/ In(lower(heap[id]["device_type"]), lower(hardware)) }

\* hardware N150 validates a record for N150L, and a record whose status is
\* EXPERIMENTAL is validated as well
C1_Witness ==
    /\ pc = "filtered"
    /\ hardware = <<"N","1","5","0">>
    /\ \E i, j \in 1..Len(validated) :
          /\ heap[validated[i]]["device_type"] = <<"N","1","5","0","L">>
          /\ DeclaredExperimental(validated[j])

\* C2: the two lists are disjoint; without include_experimental the
\* experimental list is empty; with it, a record that failed the device match
\* is in the experimental list iff one of the three signals holds, and a
\* record with no signal (or without device_type) is in neither list.
C2_Partition ==
    pc = "filtered" =>
        /\ Ids(validated) \cap Ids(experimental) = {}
        /\ ~include_experimental => experimental = <<>>
        /\ \A id \in Ids(specs) :
              /\ "device_type" \notin DOMAIN heap[id] =>
                     id \notin Ids(validated) \cup Ids(experimental)
              /\ include_experimental /\ NonValidated(id) =>
                     (id \in Ids(experimental) <=>
                        \/ SameFamily(id)
                        \/ SmallerOnLarger(id)
                        \/ DeclaredExperimental(id))

\* one run that keeps a record on its status alone and drops another record
\* that has no signal
C2_Witness ==
    /\ pc = "filtered"
    /\ include_experimental
    /\ \E id \in Ids(experimental) :
          DeclaredExperimental(id) /\ ~SameFamily(id) /\ ~SmallerOnLarger(id)
    /\ \E id \in Ids(specs) :
          NonValidated(id) /\ id \notin Ids(experimental)

\* C3: with include_experimental, a record that failed the device match and
\* declares the architecture family of the hardware is in the experimental
\* list and its compatibility reason names that architecture; for hardware of
\* neither family no reason mentions an architecture.
C3_SameArchitecture ==
    pc = "filtered" /\ include_experimental =>
        \A id \in Ids(specs) :
            /\ NonValidated(id) /\ SameFamily(id) =>
                  /\ id \in Ids(experimental)
                  /\ In(<<"s","a","m","e"," ","a","r","c","h","i","t","e","c",
                          "t","u","r","e"," ","(">>
                          \o heap[id]["env_vars"]["ARCH_NAME"] \o <<")">>,
                        ReasonOf(id))
            /\ ~IsWormhole(hardware) /\ ~IsBlackhole(hardware) =>
                  ~In(<<"a","r","c","h","i","t","e","c","t","u","r","e">>,
                      ReasonOf(id))

\* a blackhole record for another blackhole device is kept for its
\* architecture alone
C3_Witness ==
    /\ pc = "filtered"
    /\ include_experimental
    /\ hardware = <<"P","1","5","0","X","8">>
    /\ \E id \in Ids(experimental) :
          /\ SameFamily(id) /\ ~SmallerOnLarger(id) /\ ~DeclaredExperimental(id)
          /\ heap[id]["env_vars"]["ARCH_NAME"] = <<"b","l","a","c","k","h","o","l","e">>

\* C4: with include_experimental, for a record that failed the device match
\* the reason "smaller model on larger device" is recorded exactly when the
\* magnitude of the hardware exceeds that of the record's device and
\* param_count (999 when absent) is at most 8.
C4_SmallerOnLarger ==
    pc = "filtered" /\ include_experimental =>
        \A id \in Ids(specs) :
            NonValidated(id) =>
                ((id \in Ids(experimental) /\ In(SmallerText, ReasonOf(id)))
                    <=> SmallerOnLarger(id))

\* hardware N300 with the record {P100, blackhole, 3}
C4_Witness ==
    /\ pc = "filtered"
    /\ include_experimental
    /\ upper(hardware) = <<"N","3","0","0">>
    /\ \E id \in Ids(experimental) :
          /\ heap[id]["device_type"] = <<"P","1","0","0">>
          /\ heap[id]["env_vars"]["ARCH_NAME"] = <<"b","l","a","c","k","h","o","l","e">>
          /\ heap[id]["param_count"] = 3
          /\ ~SameFamily(id)
          /\ In(SmallerText, ReasonOf(id))

-----------------------------------------------------------------------------
(* match_model_name *)

\* the if / elif chain of match_model_name without the substring branch
name_match_score_no_substring(model_query_lower, model_name, model_id) ==
    IF model_query_lower = model_name THEN 100
    ELSE IF \E w \in 1..Len(split(model_name, "-")) :
               startswith(split(model_name, "-")[w], model_query_lower)
    THEN 60
    ELSE 0

\* the if / elif chain of match_model_name with the token branch ahead of
\* the substring branch
name_match_score_token_first(model_query_lower, model_name, model_id) ==
    IF model_query_lower = model_name THEN 100
    ELSE IF \E w \in 1..Len(split(model_name, "-")) :
               startswith(split(model_name, "-")[w], model_query_lower)
    THEN 60
    ELSE IF In(model_query_lower, model_name) \/ In(model_query_lower, model_id)
    THEN 80
    ELSE 0

\* the if / elif chain of match_model_name with model_id left out
name_match_score_name_only(model_query_lower, model_name, model_id) ==
    IF model_query_lower = model_name THEN 100
    ELSE IF In(model_query_lower, model_name) THEN 80
    ELSE IF \E w \in 1..Len(split(model_name, "-")) :
               startswith(split(model_name, "-")[w], model_query_lower)
    THEN 60
    ELSE 0

\* the if / elif chain of match_model_name: the score given to a record,
\* 0 when no branch is taken
name_match_score(model_query_lower, model_name, model_id) ==
    IF model_query_lower = model_name THEN 100
    ELSE IF In(model_query_lower, model_name) \/ In(model_query_lower, model_id)
    THEN 80
    ELSE IF \E w \in 1..Len(split(model_name, "-")) :
               startswith(split(model_name, "-")[w], model_query_lower)
    THEN 60
    ELSE 0

\* x.get('match_score', 0), the sort key
score_key(h, id) == Get(h[id], "match_score", 0)

\* sorted_insert placing a record before the records of equal score
sorted_insert_before_equal(h, sorted, id) ==
    LET n == Cardinality({ i \in 1..Len(sorted) :
                             score_key(h, sorted[i]) > score_key(h, id) })
    IN  SubSeq(sorted, 1, n) \o <<id>> \o SubSeq(sorted, n + 1, Len(sorted))

\* one step of the stable descending sort: the record goes behind every
\* record with a key at least its own
sorted_insert(h, sorted, id) ==
    LET n == Cardinality({ i \in 1..Len(sorted) :
                             score_key(h, sorted[i]) >= score_key(h, id) })
    IN  SubSeq(sorted, 1, n) \o <<id>> \o SubSeq(sorted, n + 1, Len(sorted))

\* matches.sort(key=match_score, reverse=True): list.sort is stable, also
\* with reverse=True
RECURSIVE sort_by_score(_, _, _, _)
sort_by_score(h, list, i, sorted) ==
    IF i > Len(list) THEN sorted
    ELSE sort_by_score(h, list, i + 1, sorted_insert(h, sorted, list[i]))

\* the for loop of match_model_name from position i on
RECURSIVE name_loop(_, _, _, _)
name_loop(list, i, model_query_lower, acc) ==
    IF i > Len(list) THEN acc
    ELSE
      LET id    == list[i]
          spec  == acc.heap[id]
          score == name_match_score(model_query_lower,
                                    lower(Get(spec, "model_name", <<>>)),
                                    lower(Get(spec, "model_id", <<>>)))
      IN  IF score # 0
          THEN name_loop(list, i + 1, model_query_lower,
                   [acc EXCEPT !.heap[id] = Put(spec, "match_score", score),
                               !.matches = Append(@, id)])
          ELSE name_loop(list, i + 1, model_query_lower, acc)

match_model_name(h, list, query) ==
    LET r == name_loop(list, 1, lower(query), [matches |-> <<>>, heap |-> h])
    IN  [matches |-> sort_by_score(r.heap, r.matches, 1, <<>>), heap |-> r.heap]

\* main: if args.model: matches = match_model_name(all_specs, args.model)
MatchModelName ==
    /\ pc = "match"
    /\ Truthy(model_query)
    /\ LET r == match_model_name(heap, specs, model_query)
       IN  /\ matches' = r.matches
           /\ heap' = r.heap
    /\ pc' = "matched_name"
    /\ UNCHANGED <<specs, hardware, include_experimental, validated,
                   experimental, model_query, task, selected, metal_info,
                   vllm_info, match_info>>
    /\ UNCHANGED <<run_vars, cache_vars, side_vars>>

-----------------------------------------------------------------------------
(* match_task *)

\* task_mappings
task_mappings ==
    << [task |-> <<"c","h","a","t">>,
        keywords |-> << <<"l","l","a","m","a">>, <<"m","i","s","t","r","a","l">>, <<"q","w","e","n">>, <<"g","e","m","m","a">> >>],
       [task |-> <<"c","o","d","e">>,
        keywords |-> << <<"l","l","a","m","a">>, <<"q","w","e","n">>, <<"c","o","d","e">> >>],
       [task |-> <<"c","o","d","e","_","a","s","s","i","s","t","a","n","t">>,
        keywords |-> << <<"l","l","a","m","a">>, <<"q","w","e","n">>, <<"c","o","d","e">> >>],
       [task |-> <<"g","e","n","e","r","a","t","e","_","i","m","a","g","e">>,
        keywords |-> << <<"s","t","a","b","l","e">>, <<"d","i","f","f","u","s","i","o","n">>, <<"s","d">>, <<"i","m","a","g","e">> >>],
       [task |-> <<"i","m","a","g","e">>,
        keywords |-> << <<"s","t","a","b","l","e">>, <<"d","i","f","f","u","s","i","o","n">>, <<"s","d">>, <<"i","m","a","g","e">> >>],
       [task |-> <<"g","e","n","e","r","a","t","e","_","v","i","d","e","o">>,
        keywords |-> << <<"v","i","d","e","o">>, <<"s","o","r","a">> >>],
       [task |-> <<"v","i","d","e","o">>,
        keywords |-> << <<"v","i","d","e","o">>, <<"s","o","r","a">> >>],
       [task |-> <<"a","g","e","n","t">>,
        keywords |-> << <<"q","w","e","n">>, <<"l","l","a","m","a">>, <<"a","g","e","n","t">> >>],
       [task |-> <<"r","e","a","s","o","n","i","n","g">>,
        keywords |-> << <<"q","w","q">>, <<"r","e","a","s","o","n">> >>] >>

\* task_mappings.get(task_lower, [task_lower])
task_keywords(task_lower) ==
    IF \E i \in 1..Len(task_mappings) : task_mappings[i].task = task_lower
    THEN task_mappings[CHOOSE i \in 1..Len(task_mappings) :
                          task_mappings[i].task = task_lower].keywords
    ELSE <<task_lower>>

\* the for loop of match_task from position i on
RECURSIVE task_loop(_, _, _, _)
task_loop(list, i, keywords, acc) ==
    IF i > Len(list) THEN acc
    ELSE
      LET id         == list[i]
          spec       == acc.heap[id]
          model_name == lower(Get(spec, "model_name", <<>>))
          model_id   == lower(Get(spec, "model_id", <<>>))
      IN  IF \E k \in 1..Len(keywords) :
                 In(keywords[k], model_name) \/ In(keywords[k], model_id)
          THEN task_loop(list, i + 1, keywords,
                   [acc EXCEPT !.heap[id] = Put(spec, "match_score", 70),
                               !.matches = Append(@, id)])
          ELSE task_loop(list, i + 1, keywords, acc)

\* match_task looking the task up as typed
match_task_as_typed(h, list, t) ==
    task_loop(list, 1, task_keywords(t), [matches |-> <<>>, heap |-> h])

match_task(h, list, t) ==
    task_loop(list, 1, task_keywords(lower(t)), [matches |-> <<>>, heap |-> h])

\* main: elif args.task: matches = match_task(all_specs, args.task)
MatchTask ==
    /\ pc = "match"
    /\ ~Truthy(model_query)
    /\ Truthy(task)
    /\ LET r == match_task(heap, specs, task)
       IN  /\ matches' = r.matches
           /\ heap' = r.heap
    /\ pc' = "matched_task"
    /\ UNCHANGED <<specs, hardware, include_experimental, validated,
                   experimental, model_query, task, selected, metal_info,
                   vllm_info, match_info>>
    /\ UNCHANGED <<run_vars, cache_vars, side_vars>>

-----------------------------------------------------------------------------
(* Inputs of match_model_name and match_task *)

\* records of the candidate list, as far as the matchers read them
MatchRecords ==
    { [model_name |-> <<"L","l","a","m","a","-","3",".","1","-","8","B","-","I","n","s","t","r","u","c","t">>,
       model_id |-> <<"m","1">>],
      [model_name |-> <<"C","o","d","e","L","l","a","m","a","-","7","B">>, model_id |-> <<"m","2">>],
      [model_name |-> <<"l","l","a","m","a">>, model_id |-> <<"m","3">>],
      [model_name |-> <<"M","i","s","t","r","a","l","-","7","B">>,
       model_id |-> <<"t","t","-","L","L","A","M","A">>],
      [model_name |-> <<"Q","w","e","n","-","7","B">>],
      [model_name |-> <<"Q","w","Q","-","3","2","B">>, model_id |-> <<>>],
      [model_id |-> <<"S","t","a","b","l","e","-","D","i","f","f","u","s","i","o","n","-","X","L">>],
      [device_type |-> <<"N","1","5","0">>] }

\* values of --model
Queries ==
    { <<"l","l","a","m","a">>,
      <<"L","L","a","M","A">>,
      <<"7","b">>,
      <<"m","i","s">>,
      <<"q","w","e","n","-","7","b">>,
      <<"3",".","1">>,
      <<"i","n","s","t","r","u","c","t">> }

\* values of the task argument
Tasks ==
    { <<"c","h","a","t">>,
      <<"C","H","A","T">>,
      <<"c","o","d","e">>,
      <<"i","m","a","g","e">>,
      <<"g","e","n","e","r","a","t","e","_","v","i","d","e","o">>,
      <<"r","e","a","s","o","n","i","n","g">>,
      <<"a","g","e","n","t">>,
      <<"Q","w","e","n">>,
      <<"m","i","s","t","r","a","l">> }

InitMatch ==
    /\ NoRun
    /\ NoCache
    /\ NoSide
    /\ pc = "match"
    /\ heap \in Catalogs(MatchRecords, MaxCatalog)
    /\ specs = ListOf(heap)
    /\ \/ model_query \in Queries /\ task = PyNone
       \/ model_query = PyNone /\ task \in Tasks
    /\ hardware = <<>>
    /\ include_experimental = FALSE
    /\ validated = <<>>
    /\ experimental = <<>>
    /\ matches = <<>>
    /\ selected = 0
    /\ metal_info = EmptyDict
    /\ vllm_info = EmptyDict
    /\ match_info = EmptyDict

NextMatch == MatchModelName \/ MatchTask

SpecMatch == InitMatch /\ [][NextMatch]_vars

-----------------------------------------------------------------------------
(* Claims about match_model_name and match_task *)

\* position of a record in a list that holds it once
PosIn(list, id) == CHOOSE i \in 1..Len(list) : list[i] = id

NoDuplicates(list) ==
    \A i, j \in 1..Len(list) : list[i] = list[j] => i = j

NameOf(id) == IF "model_name" \in DOMAIN heap[id] THEN heap[id]["model_name"] ELSE <<>>

ModelIdOf(id) == IF "model_id" \in DOMAIN heap[id] THEN heap[id]["model_id"] ELSE <<>>

\* q is a prefix of a hyphen-delimited token of name: q has no hyphen and
\* occurs in name at the start or right behind a hyphen
PrefixOfToken(q, name) ==
    /\ \A k \in 1..Len(q) : q[k] # "-"
    /\ \E p \in 1..(Len(name) + 1) :
          /\ p = 1 \/ name[p - 1] = "-"
          /\ p + Len(q) - 1 <= Len(name)
          /\ SubSeq(name, p, p + Len(q) - 1) = q

\* the tier of a record for a query, letter case disregarded; 0 for none
Tier(q, id) ==
    IF upper(q) = upper(NameOf(id)) THEN 100
    ELSE IF In(upper(q), upper(NameOf(id))) \/ In(upper(q), upper(ModelIdOf(id)))
    THEN 80
    ELSE IF PrefixOfToken(upper(q), upper(NameOf(id))) THEN 60
    ELSE 0

\* C5: match_model_name disregards case and returns each record at most
\* once, scored 100 for a name equal to the query, else 80 for a query that
\* is a substring of the name or the id, else 60 for a query that is a prefix
\* of a hyphen-delimited token of the name; a record of no tier is absent.
C5_NameTiers ==
    pc = "matched_name" =>
        /\ NoDuplicates(matches)
        /\ \A id \in Ids(specs) :
              IF Tier(model_query, id) = 0
              THEN id \notin Ids(matches)
              ELSE /\ id \in Ids(matches)
                   /\ "match_score" \in DOMAIN heap[id]
                   /\ heap[id]["match_score"] = Tier(model_query, id)

\* one result holding an exact match, a match through model_id only and
\* leaving a record out
C5_Witness ==
    /\ pc = "matched_name"
    /\ \E i, j \in 1..Len(matches) :
          /\ heap[matches[i]]["match_score"] = 100
          /\ heap[matches[j]]["match_score"] = 80
          /\ ~In(upper(model_query), upper(NameOf(matches[j])))
    /\ \E id \in Ids(specs) : id \notin Ids(matches)

\* C6: the result of match_model_name is in descending order of match_score
\* and records of equal score keep the order they had in the input list.
C6_SortedStable ==
    pc = "matched_name" =>
        \A i, j \in 1..Len(matches) :
            i < j =>
                /\ heap[matches[i]]["match_score"] >= heap[matches[j]]["match_score"]
                /\ heap[matches[i]]["match_score"] = heap[matches[j]]["match_score"]
                       => PosIn(specs, matches[i]) < PosIn(specs, matches[j])

\* two records of equal score behind a record of higher score that came
\* last in the input
C6_Witness ==
    /\ pc = "matched_name"
    /\ Len(matches) = 3
    /\ heap[matches[1]]["match_score"] > heap[matches[2]]["match_score"]
    /\ heap[matches[2]]["match_score"] = heap[matches[3]]["match_score"]
    /\ PosIn(specs, matches[1]) = 3

\* the records of C7 in the input list: named Llama-3.1-8B-Instruct or
\* CodeLlama-7B, with a model_id that does not contain the query
LlamaRecords ==
    { id \in Ids(specs) :
        /\ NameOf(id) \in { <<"L","l","a","m","a","-","3",".","1","-","8","B","-","I","n","s","t","r","u","c","t">>,
                            <<"C","o","d","e","L","l","a","m","a","-","7","B">> }
        /\ ~In(<<"l","l","a","m","a">>, lower(ModelIdOf(id))) }

KeywordsFor(t) ==
    LET entries == { i \in 1..Len(task_mappings) :
                       upper(task_mappings[i].task) = upper(t) }
    IN  IF entries = {}
        THEN { lower(t) }
        ELSE UNION { { task_mappings[i].keywords[k] :
                          k \in 1..Len(task_mappings[i].keywords) } :
                     i \in entries }

TaskHit(t, id) ==
    \E kw \in KeywordsFor(t) :
        In(kw, lower(NameOf(id))) \/ In(kw, lower(ModelIdOf(id)))

\* C8: match_task finds the keywords of the task without regard to case, an
\* unknown task being its own only keyword; it returns, in input order and
\* each once, exactly the records with a keyword in the lower-cased
\* model_name or model_id, every one with match_score 70.
C8_TaskMatches ==
    pc = "matched_task" =>
        /\ NoDuplicates(matches)
        /\ Ids(matches) = { id \in Ids(specs) : TaskHit(task, id) }
        /\ \A i, j \in 1..Len(matches) :
              i < j => PosIn(specs, matches[i]) < PosIn(specs, matches[j])
        /\ \A id \in Ids(matches) :
              "match_score" \in DOMAIN heap[id] /\ heap[id]["match_score"] = 70

\* a task of the table written in capitals matches two records and leaves
\* one out
C8_Witness ==
    /\ pc = "matched_task"
    /\ task = <<"C","H","A","T">>
    /\ Len(matches) = 2
    /\ Len(specs) = 3

-----------------------------------------------------------------------------
(* check_environment_match *)

\* a toolchain that was not detected: detect_tt_metal / detect_tt_vllm
\* returned None; the code only ever tests the result for truth
NoInfo == EmptyDict

\* commits_match(current, required)
commits_match(current, required) ==
    IF \/ ~Truthy(current)
       \/ ~Truthy(required)
       \/ Member(required, << <<"N","o","n","e">>, <<"n","u","l","l">> >>)
    THEN FALSE
    ELSE LET min_len == min(Len(current), Len(required), 7)
         IN  Prefix(current, min_len) = Prefix(required, min_len)

\* toolchain_check writing the diff as "<required> -> <current>"
toolchain_check_swapped(spec_commit, current_commit) ==
    IF Truthy(spec_commit) /\ Truthy(current_commit)
    THEN IF commits_match(current_commit, spec_commit)
         THEN [compatible |-> TRUE, diff |-> PyNone]
         ELSE [compatible |-> FALSE,
               diff |-> spec_commit \o <<" ","-",">"," ">> \o current_commit]
    ELSE [compatible |-> FALSE, diff |-> PyNone]

\* the outcome for one toolchain: the compatible flag and the diff string
toolchain_check(spec_commit, current_commit) ==
    IF Truthy(spec_commit) /\ Truthy(current_commit)
    THEN IF commits_match(current_commit, spec_commit)
         THEN [compatible |-> TRUE, diff |-> PyNone]
         ELSE [compatible |-> FALSE,
               diff |-> current_commit \o <<" ","-",">"," ">> \o spec_commit]
    ELSE [compatible |-> FALSE, diff |-> PyNone]

\* setup_not_needed satisfied by one compatible toolchain
setup_not_needed_either(metal_compatible, vllm_compatible) ==
    metal_compatible \/ vllm_compatible

\* the condition under which needs_setup is set to False
setup_not_needed(metal_compatible, vllm_compatible) ==
    metal_compatible /\ vllm_compatible

\* check_environment_match returning early only when both statuses are
\* missing
check_environment_match_both_missing(spec, metal, vllm) ==
    IF DOMAIN metal = {} /\ DOMAIN vllm = {}
    THEN [metal_compatible |-> FALSE, vllm_compatible |-> FALSE,
          metal_diff |-> PyNone, vllm_diff |-> PyNone, needs_setup |-> TRUE]
    ELSE LET m == toolchain_check(Get(spec, "tt_metal_commit", <<>>),
                                  Get(metal, "commit", <<>>))
             v == toolchain_check(Get(spec, "vllm_commit", <<>>),
                                  Get(vllm, "commit", <<>>))
         IN  [metal_compatible |-> m.compatible,
              vllm_compatible |-> v.compatible,
              metal_diff |-> m.diff,
              vllm_diff |-> v.diff,
              needs_setup |-> ~setup_not_needed(m.compatible, v.compatible)]

check_environment_match(spec, metal, vllm) ==
    IF DOMAIN metal = {} \/ DOMAIN vllm = {}
    THEN [metal_compatible |-> FALSE, vllm_compatible |-> FALSE,
          metal_diff |-> PyNone, vllm_diff |-> PyNone, needs_setup |-> TRUE]
    ELSE LET m == toolchain_check(Get(spec, "tt_metal_commit", <<>>),
                                  Get(metal, "commit", <<>>))
             v == toolchain_check(Get(spec, "vllm_commit", <<>>),
                                  Get(vllm, "commit", <<>>))
         IN  [metal_compatible |-> m.compatible,
              vllm_compatible |-> v.compatible,
              metal_diff |-> m.diff,
              vllm_diff |-> v.diff,
              needs_setup |-> ~setup_not_needed(m.compatible, v.compatible)]

\* main: env_match = check_environment_match(selected, metal_info, vllm_info)
CheckEnvironmentMatch ==
    /\ pc = "check_env"
    /\ match_info' = check_environment_match(heap[selected], metal_info, vllm_info)
    /\ pc' = "env_checked"
    /\ UNCHANGED <<heap, specs, hardware, include_experimental, validated,
                   experimental, model_query, task, matches, selected,
                   metal_info, vllm_info>>
    /\ UNCHANGED <<run_vars, cache_vars, side_vars>>

-----------------------------------------------------------------------------
(* Inputs of check_environment_match *)

\* commit identifiers a record may require
RequiredCommits ==
    { PyNone, <<>>, <<"N","o","n","e">>, <<"n","u","l","l">>,
      <<"N","o","n","e","1","2">>, <<"a","b","c","1","2","3","4","9","9","9">>,
      <<"a","b","c","1","2","9","9","9","9","9">>, <<"a","b","c","1","2">> }

\* commit identifiers a toolchain status may carry
CurrentCommits ==
    { PyNone, <<>>, <<"N","o","n","e">>, <<"a","b","c","1","2","3","4","5","6","7">>,
      <<"a","b","c","1","2","9","9">>, <<"a","b","c","1","2">> }

\* the records, as far as check_environment_match reads them
EnvRecords ==
    { [model_name |-> <<"m">>] }
    \cup { [model_name |-> <<"m">>, tt_metal_commit |-> a] : a \in RequiredCommits }
    \cup { [model_name |-> <<"m">>, vllm_commit |-> b] : b \in RequiredCommits }
    \cup { [model_name |-> <<"m">>, tt_metal_commit |-> a, vllm_commit |-> b] :
             a \in RequiredCommits, b \in RequiredCommits }

\* the toolchain statuses
ToolchainInfos ==
    { NoInfo } \cup { [path |-> <<"/">>, commit |-> c] : c \in CurrentCommits }

InitEnv ==
    /\ NoRun
    /\ NoCache
    /\ NoSide
    /\ pc = "check_env"
    /\ \E r \in EnvRecords : heap = <<r>>
    /\ specs = ListOf(heap)
    /\ selected = 1
    /\ metal_info \in ToolchainInfos
    /\ vllm_info \in ToolchainInfos
    /\ hardware = <<>>
    /\ include_experimental = FALSE
    /\ validated = <<>>
    /\ experimental = <<>>
    /\ model_query = PyNone
    /\ task = PyNone
    /\ matches = <<>>
    /\ match_info = EmptyDict

NextEnv == CheckEnvironmentMatch

SpecEnv == InitEnv /\ [][NextEnv]_vars

-----------------------------------------------------------------------------
(* Claims about check_environment_match *)

\* both toolchain statuses were given
BothDetected == DOMAIN metal_info # {} /\ DOMAIN vllm_info # {}

RequiredOf(key) == IF key \in DOMAIN heap[selected] THEN heap[selected][key] ELSE PyNone

InstalledOf(info) == IF "commit" \in DOMAIN info THEN info["commit"] ELSE PyNone

\* the two identifiers agree on their first min(len, len, 7) characters
SamePrefix(a, b) ==
    \E n \in 0..7 :
        /\ n <= Len(a) /\ n <= Len(b)
        /\ n = 7 \/ n = Len(a) \/ n = Len(b)
        /\ \A k \in 1..n : a[k] = b[k]

\* the record states a requirement: present, not empty, not a placeholder
Explicit(req) ==
    req \notin { PyNone, <<>>, <<"N","o","n","e">>, <<"n","u","l","l">> }

\* the installed commit is known
Known(cur) == cur \notin { PyNone, <<>> }

\* an identifier that is empty, absent or one of the placeholder words
Placeholder(x) ==
    x \in { PyNone, <<>>, <<"N","o","n","e">>, <<"n","u","l","l">> }

\* C9: needs_setup is false only when both toolchains are detected, the
\* record states a requirement for both and both installed commits match
\* their requirement; in every other case needs_setup is true.
C9_NeedsSetup ==
    pc = "env_checked" =>
        /\ match_info.needs_setup \in BOOLEAN
        /\ match_info.needs_setup = FALSE <=>
              /\ BothDetected
              /\ Explicit(RequiredOf("tt_metal_commit"))
              /\ Explicit(RequiredOf("vllm_commit"))
              /\ Known(InstalledOf(metal_info))
              /\ Known(InstalledOf(vllm_info))
              /\ SamePrefix(InstalledOf(metal_info), RequiredOf("tt_metal_commit"))
              /\ SamePrefix(InstalledOf(vllm_info), RequiredOf("vllm_commit"))

\* a run in which no setup is needed, the installed commits being longer
\* or shorter than the required ones
C9_Witness ==
    /\ pc = "env_checked"
    /\ match_info.needs_setup = FALSE
    /\ InstalledOf(metal_info) # RequiredOf("tt_metal_commit")
    /\ Len(InstalledOf(vllm_info)) < 7

C12_AbsentToolchain ==
    pc = "env_checked" /\ ~BothDetected =>
        /\ match_info.metal_compatible = FALSE
        /\ match_info.vllm_compatible = FALSE
        /\ match_info.metal_diff = PyNone
        /\ match_info.vllm_diff = PyNone
        /\ match_info.needs_setup = TRUE

\* one status is absent while the other toolchain is on the required commit
C12_Witness ==
    /\ pc = "env_checked"
    /\ DOMAIN metal_info = {}
    /\ DOMAIN vllm_info # {}
    /\ Known(InstalledOf(vllm_info))
    /\ Explicit(RequiredOf("vllm_commit"))
    /\ SamePrefix(InstalledOf(vllm_info), RequiredOf("vllm_commit"))
    /\ Explicit(RequiredOf("tt_metal_commit"))

\* what C13 says of one toolchain, both statuses being given: without a
\* requirement (absent, null or empty) no diff and not compatible; with a
\* requirement that the known installed commit does not match, the diff is
\* the installed commit, " -> ", the required commit; no diff when compatible
DiffAsDocumented(req, cur, compatible, diff) ==
    /\ ~Truthy(req) => diff = PyNone /\ ~compatible
    /\ Truthy(req) /\ Known(cur) /\ ~compatible =>
          /\ diff # PyNone
          /\ Len(diff) = Len(cur) + 4 + Len(req)
          /\ SubSeq(diff, 1, Len(cur)) = cur
          /\ SubSeq(diff, Len(cur) + 1, Len(cur) + 4) = <<" ","-",">"," ">>
          /\ SubSeq(diff, Len(cur) + 5, Len(diff)) = req
    /\ compatible => diff = PyNone

\* C13: per toolchain, no requirement gives no diff and no compatibility; a
\* requirement the installed commit does not match gives the diff
\* "<current> -> <required>"; a compatible toolchain has no diff.
C13_DiffStrings ==
    pc = "env_checked" /\ BothDetected =>
        /\ DiffAsDocumented(RequiredOf("tt_metal_commit"), InstalledOf(metal_info),
                            match_info.metal_compatible, match_info.metal_diff)
        /\ DiffAsDocumented(RequiredOf("vllm_commit"), InstalledOf(vllm_info),
                            match_info.vllm_compatible, match_info.vllm_diff)

\* tt-metal is on another commit than required, the record requires nothing
\* of vLLM
C13_Witness ==
    /\ pc = "env_checked"
    /\ BothDetected
    /\ match_info.metal_diff # PyNone
    /\ InstalledOf(metal_info) # RequiredOf("tt_metal_commit")
    /\ "vllm_commit" \notin DOMAIN heap[selected]
    /\ Known(InstalledOf(vllm_info))

-----------------------------------------------------------------------------
(* apply_conservative_params *)

(* The nested dict device_model_spec is an object of its own: the record     *)
(* holds its identity, so that the shallow spec.copy() shares it with the     *)
(* source.  The values in it come unchecked from the catalog document: a      *)
(* number n is [num |-> n], a string s is [str |-> s], null is [null |-> 0].  *)

IsNumber(v) == "num" \in DOMAIN v

\* max(a, b)
max(a, b) == IF a >= b THEN a ELSE b

\* int(original * 0.67) for a non-negative int: 0.67 is the double next above
\* 67/100, and the product never rounds below an integer
reduce_context(original) == (original * 67) \div 100

\* reduce_num_seqs without the floor at 1
reduce_num_seqs_unfloored(original) == (original * 67) \div 100

\* max(1, int(original * 0.67))
reduce_num_seqs(original) == max(1, (original * 67) \div 100)

\* the two if blocks on the copied device_model_spec; a non-number times
\* 0.67 raises TypeError
reduced_model_spec(dms) ==
    LET bad(k) == k \in DOMAIN dms /\ ~IsNumber(dms[k])
        d1 == IF "max_context" \in DOMAIN dms /\ IsNumber(dms["max_context"])
              THEN Put(dms, "max_context",
                       [num |-> reduce_context(dms["max_context"].num)])
              ELSE dms
        d2 == IF "max_num_seqs" \in DOMAIN d1 /\ IsNumber(d1["max_num_seqs"])
              THEN Put(d1, "max_num_seqs",
                       [num |-> reduce_num_seqs(d1["max_num_seqs"].num)])
              ELSE d1
    IN  IF bad("max_context") \/ bad("max_num_seqs")
        THEN [raised |-> "TypeError", dict |-> dms]
        ELSE [raised |-> "", dict |-> d2]

\* apply_conservative_params working on the nested dict of the source
\* instead of a copy of it
apply_conservative_params_shared(h, id) ==
    LET spec == h[id]
        c_id == Len(h) + 1
        h1   == Append(h, spec)
        has  == "device_model_spec" \in DOMAIN spec
        d_id == IF has THEN spec["device_model_spec"] ELSE Len(h1) + 1
        h2   == IF has THEN h1 ELSE Append(h1, EmptyDict)
        r    == reduced_model_spec(h2[d_id])
    IN  IF r.raised # ""
        THEN [heap |-> h2, result |-> 0, raised |-> r.raised]
        ELSE [heap |-> [h2 EXCEPT
                          ![d_id] = r.dict,
                          ![c_id] = Put(Put(spec, "device_model_spec", d_id),
                                        "_is_experimental", TRUE)],
              result |-> c_id, raised |-> ""]

\* apply_conservative_params(spec): the new heap, the identity of the
\* returned record (0 when the call raised) and the exception raised
apply_conservative_params(h, id) ==
    LET spec == h[id]
        \* conservative_spec = spec.copy()
        c_id == Len(h) + 1
        h1   == Append(h, spec)
        \* device_model_spec = conservative_spec.get('device_model_spec', {}).copy()
        d_id == Len(h1) + 1
        h2   == Append(h1, IF "device_model_spec" \in DOMAIN spec
                           THEN h[spec["device_model_spec"]]
                           ELSE EmptyDict)
        r    == reduced_model_spec(h2[d_id])
    IN  IF r.raised # ""
        THEN [heap |-> h2, result |-> 0, raised |-> r.raised]
        ELSE [heap |-> [h2 EXCEPT
                          ![d_id] = r.dict,
                          ![c_id] = Put(Put(spec, "device_model_spec", d_id),
                                        "_is_experimental", TRUE)],
              result |-> c_id, raised |-> ""]

ApplyConservativeParams ==
    /\ pc = "derive"
    /\ LET r == apply_conservative_params(heap, selected)
       IN  /\ heap' = r.heap
           /\ conservative_spec' = r.result
           /\ raised' = r.raised
    /\ pc' = "derived"
    /\ UNCHANGED <<specs, hardware, include_experimental, validated,
                   experimental, model_query, task, matches, selected,
                   metal_info, vllm_info, match_info, all_specs, model_info,
                   commands, cache_vars, side_vars>>

-----------------------------------------------------------------------------
(* Inputs of apply_conservative_params *)

\* values of max_context in a catalog document
ContextValues ==
    << [num |-> 0], [num |-> 1], [num |-> 100], [num |-> 150],
       [num |-> 65536], [str |-> <<"8","k">>], [null |-> 0] >>

\* values of max_num_seqs in a catalog document
SeqsValues ==
    << [num |-> 0], [num |-> 1], [num |-> 2], [num |-> 3], [num |-> 32],
       [str |-> <<"3">>], [null |-> 0] >>

\* the device_model_spec dicts: each of the three fields present or not
ModelSpecs ==
    { [k \in ks |-> CASE k = "max_context" -> ContextValues[c]
                      [] k = "max_num_seqs" -> SeqsValues[n]
                      [] k = "block_size" -> [num |-> 64]] :
        ks \in SUBSET {"max_context", "max_num_seqs", "block_size"},
        c \in 1..Len(ContextValues), n \in 1..Len(SeqsValues) }

\* an experimental record as filter_by_hardware leaves it
DeriveRecord ==
    [device_type |-> <<"P","1","0","0">>, param_count |-> 3,
     _compatibility_reason |->
        <<"s","m","a","l","l","e","r"," ","m","o","d","e","l"," ","o","n"," ",
          "l","a","r","g","e","r"," ","d","e","v","i","c","e">>]

InitDerive ==
    /\ pc = "derive"
    /\ \/ heap = <<DeriveRecord>> /\ selected = 1
       \/ \E dms \in ModelSpecs :
             /\ heap = <<dms, Put(DeriveRecord, "device_model_spec", 1)>>
             /\ selected = 2
    /\ specs = <<selected>>
    /\ hardware = <<>>
    /\ include_experimental = TRUE
    /\ validated = <<>>
    /\ experimental = <<selected>>
    /\ model_query = PyNone
    /\ task = PyNone
    /\ matches = <<>>
    /\ metal_info = EmptyDict
    /\ vllm_info = EmptyDict
    /\ match_info = EmptyDict
    /\ NoRun
    /\ NoCache
    /\ NoSide

NextDerive == ApplyConservativeParams

SpecDerive == InitDerive /\ [][NextDerive]_vars

-----------------------------------------------------------------------------
(* Claims about apply_conservative_params *)

\* the device_model_spec dict of a record, empty when the record has none
ModelSpecOf(h, id) ==
    IF "device_model_spec" \in DOMAIN h[id] THEN h[h[id]["device_model_spec"]]
    ELSE EmptyDict

\* m is x times 0.67, truncated to an integer
IsTruncated67(m, x) == 100 * m <= 67 * x /\ 67 * x < 100 * (m + 1)

\* C14: a call of apply_conservative_params leaves every object that existed
\* before it (the input record and its nested device_model_spec) with the
\* fields and values it had, and _is_experimental is on the returned record
\* only, which is a new object.
C14_InputUntouched ==
    [][pc = "derive" /\ pc' = "derived" =>
          /\ Len(heap') >= Len(heap)
          /\ \A id \in 1..Len(heap) :
                /\ heap'[id] = heap[id]
                /\ "_is_experimental" \notin DOMAIN heap'[id]
          /\ conservative_spec' # 0 =>
                /\ conservative_spec' > Len(heap)
                /\ heap'[conservative_spec']["_is_experimental"] = TRUE
                /\ heap'[conservative_spec']["device_model_spec"] > Len(heap)]_vars

\* a call that lowered max_context in the returned record
C14_Witness ==
    /\ pc = "derived"
    /\ conservative_spec # 0
    /\ "max_context" \in DOMAIN ModelSpecOf(heap, selected)
    /\ ModelSpecOf(heap, conservative_spec)["max_context"].num
          < ModelSpecOf(heap, selected)["max_context"].num

\* C15: in the returned record max_context is the source value times 0.67
\* truncated, max_num_seqs is that but at least 1, a field the source lacks
\* stays absent and every other field keeps its value; {100, 3} gives
\* {67, 2} and {max_num_seqs: 1} gives {max_num_seqs: 1}.
C15_ReducedValues ==
    pc = "derived" /\ conservative_spec # 0 =>
        LET src == ModelSpecOf(heap, selected)
            out == ModelSpecOf(heap, conservative_spec)
        IN  /\ DOMAIN out = DOMAIN src
            /\ "max_context" \in DOMAIN src =>
                  IsTruncated67(out["max_context"].num, src["max_context"].num)
            /\ "max_num_seqs" \in DOMAIN src =>
                  /\ out["max_num_seqs"].num >= 1
                  /\ \/ IsTruncated67(out["max_num_seqs"].num, src["max_num_seqs"].num)
                     \/ /\ out["max_num_seqs"].num = 1
                        /\ IsTruncated67(0, src["max_num_seqs"].num)
            /\ \A k \in DOMAIN src \ {"max_context", "max_num_seqs"} :
                  out[k] = src[k]
            /\ src = [max_context |-> [num |-> 100], max_num_seqs |-> [num |-> 3]]
                  => out = [max_context |-> [num |-> 67], max_num_seqs |-> [num |-> 2]]
            /\ src = [max_num_seqs |-> [num |-> 1]]
                  => out = [max_num_seqs |-> [num |-> 1]]

\* max_num_seqs 1 stays 1 and max_context is absent on both sides
C15_Witness ==
    /\ pc = "derived"
    /\ conservative_spec # 0
    /\ ModelSpecOf(heap, selected) = [max_num_seqs |-> [num |-> 1]]
    /\ ModelSpecOf(heap, conservative_spec) = [max_num_seqs |-> [num |-> 1]]

\* the source holds a max_context or max_num_seqs that is not a number
Malformed(src) ==
    \E k \in {"max_context", "max_num_seqs"} :
        k \in DOMAIN src /\ "num" \notin DOMAIN src[k]

\* C17 as stated: for a non-numeric max_context or max_num_seqs the call
\* raises nothing and returns a record in which that field has its original
\* value.
C17_FailsClosed ==
    pc = "derived" /\ Malformed(ModelSpecOf(heap, selected)) =>
        /\ raised = ""
        /\ conservative_spec # 0
        /\ \A k \in {"max_context", "max_num_seqs"} :
              (k \in DOMAIN ModelSpecOf(heap, selected)
                  /\ "num" \notin DOMAIN ModelSpecOf(heap, selected)[k])
              => ModelSpecOf(heap, conservative_spec)[k]
                     = ModelSpecOf(heap, selected)[k]

-----------------------------------------------------------------------------
(* main: from the fetched catalog to the matches *)

\* the for loop over experimental_specs from position i on:
\* all_specs.append(apply_conservative_params(spec)); an exception ends it
RECURSIVE combine_loop(_, _, _)
combine_loop(list, i, acc) ==
    IF i > Len(list) \/ acc.raised # "" THEN acc
    ELSE LET r == apply_conservative_params(acc.heap, list[i])
         IN  combine_loop(list, i + 1,
                 [heap |-> r.heap,
                  all_specs |-> IF r.raised = "" THEN Append(acc.all_specs, r.result)
                                ELSE acc.all_specs,
                  raised |-> r.raised])

\* combine_specs deriving the validated records as well
combine_specs_all(h, validated_specs, experimental_specs, show_experimental) ==
    IF show_experimental /\ experimental_specs # <<>>
    THEN combine_loop(validated_specs \o experimental_specs, 1,
                      [heap |-> h, all_specs |-> <<>>, raised |-> ""])
    ELSE [heap |-> h, all_specs |-> validated_specs, raised |-> ""]

\* all_specs = validated_specs[:], then the derived experimental records when
\* --show-experimental is given and there are any
combine_specs(h, validated_specs, experimental_specs, show_experimental) ==
    IF show_experimental /\ experimental_specs # <<>>
    THEN combine_loop(experimental_specs, 1,
                      [heap |-> h, all_specs |-> validated_specs, raised |-> ""])
    ELSE [heap |-> h, all_specs |-> validated_specs, raised |-> ""]

\* main: both lists empty, "No models cataloged", return 0
NoModels ==
    /\ pc = "filtered"
    /\ validated = <<>> /\ experimental = <<>>
    /\ pc' = "done"
    /\ UNCHANGED <<heap, specs, hardware, include_experimental, validated,
                   experimental, model_query, task, matches, selected,
                   metal_info, vllm_info, match_info, run_vars, cache_vars, side_vars>>

\* main: the candidate list; an exception of the derivation reaches the
\* except clause at the end of the script
CombineSpecs ==
    /\ pc = "filtered"
    /\ validated # <<>> \/ experimental # <<>>
    /\ LET r == combine_specs(heap, validated, experimental, include_experimental)
       IN  /\ heap' = r.heap
           /\ all_specs' = r.all_specs
           /\ raised' = r.raised
           /\ pc' = IF r.raised = "" THEN "combined" ELSE "failed"
    /\ UNCHANGED <<specs, hardware, include_experimental, validated,
                   experimental, model_query, task, matches, selected,
                   metal_info, vllm_info, match_info, conservative_spec,
                   model_info, commands, cache_vars, side_vars>>

\* main: if args.model: matches = match_model_name(all_specs, args.model)
MatchAllByName ==
    /\ pc = "combined"
    /\ Truthy(model_query)
    /\ LET r == match_model_name(heap, all_specs, model_query)
       IN  /\ matches' = r.matches
           /\ heap' = r.heap
    /\ pc' = "matched_name"
    /\ UNCHANGED <<specs, hardware, include_experimental, validated,
                   experimental, model_query, task, selected, metal_info,
                   vllm_info, match_info, run_vars, cache_vars, side_vars>>

\* main: elif args.task: matches = match_task(all_specs, args.task)
MatchAllByTask ==
    /\ pc = "combined"
    /\ ~Truthy(model_query)
    /\ Truthy(task)
    /\ LET r == match_task(heap, all_specs, task)
       IN  /\ matches' = r.matches
           /\ heap' = r.heap
    /\ pc' = "matched_task"
    /\ UNCHANGED <<specs, hardware, include_experimental, validated,
                   experimental, model_query, task, selected, metal_info,
                   vllm_info, match_info, run_vars, cache_vars, side_vars>>

\* main: neither --model nor a task, "Please specify either a task or
\* --model", return 1
NoQuery ==
    /\ pc = "combined"
    /\ ~Truthy(model_query)
    /\ ~Truthy(task)
    /\ pc' = "done"
    /\ UNCHANGED <<heap, specs, hardware, include_experimental, validated,
                   experimental, model_query, task, matches, selected,
                   metal_info, vllm_info, match_info, run_vars, cache_vars, side_vars>>

-----------------------------------------------------------------------------
(* Inputs of main *)

MaxMainCatalog == 2

\* records of the catalog document; device_model_spec is the nested object
MainRecords ==
    { [device_type |-> <<"N","1","5","0">>, model_name |-> <<"L","l","a","m","a","-","3",".","1","-","8","B","-","I","n","s","t","r","u","c","t">>, status |-> <<"C","O","M","P","L","E","T","E">>,
       device_model_spec |-> [max_context |-> [num |-> 100],
                              max_num_seqs |-> [num |-> 3]]],
      [device_type |-> <<"N","3","0","0">>, model_name |-> <<"M","i","s","t","r","a","l","-","7","B">>,
       env_vars |-> [ARCH_NAME |-> <<"w","o","r","m","h","o","l","e","_","b","0">>], param_count |-> 7,
       device_model_spec |-> [max_num_seqs |-> [num |-> 1],
                              block_size |-> [num |-> 64]]],
      [device_type |-> <<"N","3","0","0">>, model_name |-> <<"C","o","d","e","L","l","a","m","a","-","7","B">>, status |-> <<"E","X","P","E","R","I","M","E","N","T","A","L">>],
      [model_name |-> <<"Q","w","e","n","-","7","B">>, status |-> <<"E","X","P","E","R","I","M","E","N","T","A","L">>,
       env_vars |-> [ARCH_NAME |-> <<"w","o","r","m","h","o","l","e","_","b","0">>]],
      [device_type |-> <<"P","1","0","0">>, model_name |-> <<"L","l","a","m","a","-","3",".","1","-","8","B","-","I","n","s","t","r","u","c","t">>, param_count |-> 70,
       env_vars |-> [ARCH_NAME |-> <<"b","l","a","c","k","h","o","l","e">>]],
      [device_type |-> <<"N","3","0","0">>, model_id |-> <<"Q","w","e","n","-","7","B">>, status |-> <<"E","X","P","E","R","I","M","E","N","T","A","L">>,
       device_model_spec |-> [max_context |-> [str |-> <<"8","k">>]]] }

\* json.load of a catalog document: one object per record, then one per
\* record for its device_model_spec (left empty and unreferenced when the
\* record has none)
LoadCatalog(doc) ==
    LET n == Len(doc)
    IN  [i \in 1..(2 * n) |->
            IF i <= n
            THEN IF "device_model_spec" \in DOMAIN doc[i]
                 THEN Put(doc[i], "device_model_spec", n + i)
                 ELSE doc[i]
            ELSE Get(doc[i - n], "device_model_spec", EmptyDict)]

\* main reaches filter_by_hardware with a detected hardware and a catalog
\* that is not empty
InitMain ==
    /\ NoRun
    /\ NoCache
    /\ NoSide
    /\ pc = "filter"
    /\ \E doc \in Catalogs(MainRecords, MaxMainCatalog) :
          /\ doc # <<>>
          /\ heap = LoadCatalog(doc)
          /\ specs = [i \in 1..Len(doc) |-> i]
    /\ hardware \in { <<"N","1","5","0">>, <<"X","1">> }
    /\ include_experimental \in BOOLEAN
    /\ \/ model_query \in { <<"l","l","a","m","a">>, <<"z","z">> } /\ task = PyNone
       \/ model_query = PyNone /\ task \in { <<"c","h","a","t">>, <<"v","i","d","e","o">>, PyNone }
    /\ validated = <<>>
    /\ experimental = <<>>
    /\ matches = <<>>
    /\ selected = 0
    /\ metal_info = EmptyDict
    /\ vllm_info = EmptyDict
    /\ match_info = EmptyDict

NextMain ==
    \/ FilterByHardware
    \/ NoModels
    \/ CombineSpecs
    \/ MatchAllByName
    \/ MatchAllByTask
    \/ NoQuery

SpecMain == InitMain /\ [][NextMain]_vars

-----------------------------------------------------------------------------
(* Claims about main *)

\* out is the record src with _is_experimental set and the reduction made
\* once on its device_model_spec sd, giving od
OnceDerived(src, sd, out, od) ==
    /\ DOMAIN out = DOMAIN src \cup {"_is_experimental", "device_model_spec"}
    /\ out["_is_experimental"] = TRUE
    /\ \A k \in DOMAIN src \ {"device_model_spec"} : out[k] = src[k]
    /\ DOMAIN od = DOMAIN sd
    /\ "max_context" \in DOMAIN sd =>
          IsTruncated67(od["max_context"].num, sd["max_context"].num)
    /\ "max_num_seqs" \in DOMAIN sd =>
          \/ od["max_num_seqs"].num >= 1
                /\ IsTruncated67(od["max_num_seqs"].num, sd["max_num_seqs"].num)
          \/ od["max_num_seqs"].num = 1
                /\ IsTruncated67(0, sd["max_num_seqs"].num)
    /\ \A k \in DOMAIN sd \ {"max_context", "max_num_seqs"} : od[k] = sd[k]

\* C16: the step of main that builds the candidate list leaves every
\* existing object as it was, puts the validated records themselves first
\* (none of them marked _is_experimental), and, only with --show-experimental,
\* appends for each experimental record, in order, one new record that is
\* its once-derived copy; without the option nothing is derived.
C16_DerivedOnce ==
    [][pc = "filtered" /\ pc' = "combined" =>
          LET nv == Len(validated)
              ne == Len(experimental)
          IN  /\ \A id \in 1..Len(heap) : heap'[id] = heap[id]
              /\ SubSeq(all_specs', 1, nv) = validated
              /\ \A i \in 1..nv :
                    DOMAIN heap'[validated[i]]
                       \cap {"_is_experimental", "_compatibility_reason",
                             "match_score"} = {}
              /\ ~include_experimental => all_specs' = validated /\ heap' = heap
              /\ include_experimental =>
                    /\ Len(all_specs') = nv + ne
                    /\ \A i \in 1..ne :
                          LET c == all_specs'[nv + i]
                          IN  /\ c > Len(heap)
                              /\ \A j \in 1..ne : j # i => all_specs'[nv + j] # c
                              /\ OnceDerived(heap[experimental[i]],
                                             ModelSpecOf(heap, experimental[i]),
                                             heap'[c], ModelSpecOf(heap', c))]_vars

\* a candidate list of a validated record followed by a derived copy
C16_Witness ==
    /\ pc = "combined"
    /\ include_experimental
    /\ Len(validated) = 1 /\ Len(experimental) = 1
    /\ all_specs[1] = validated[1]
    /\ all_specs[2] \notin Ids(specs)
    /\ heap[all_specs[2]]["_is_experimental"] = TRUE

\* some record's device_type holds the hardware identifier or is held by it
HardwareKnown ==
    \E id \in Ids(specs) :
        /\ "device_type" \in DOMAIN heap[id]
        /\ \/ In(upper(hardware), upper(heap[id]["device_type"]))
           \/ In(upper(heap[id]["device_type"]), upper(hardware))

\* C18: filter_by_hardware ends without an exception, with no record that
\* lacks device_type in either list and with an empty validated list when
\* the hardware matches no record; match_model_name and match_task end
\* without an exception and with an empty list when no candidate matches.
C18_NoResultsNoError ==
    /\ pc = "filtered" =>
          /\ raised = ""
          /\ \A id \in Ids(specs) :
                "device_type" \notin DOMAIN heap[id]
                   => id \notin Ids(validated) \cup Ids(experimental)
          /\ ~HardwareKnown => validated = <<>>
    /\ pc = "matched_name" =>
          /\ raised = ""
          /\ (\A id \in Ids(all_specs) : Tier(model_query, id) = 0)
                => matches = <<>>
    /\ pc = "matched_task" =>
          /\ raised = ""
          /\ (\A id \in Ids(all_specs) : ~TaskHit(task, id)) => matches = <<>>

\* a catalog with a record lacking device_type was filtered and the name
\* matched none of the candidates
C18_Witness ==
    /\ pc = "matched_name"
    /\ \E id \in Ids(specs) : "device_type" \notin DOMAIN heap[id]
    /\ all_specs # <<>>
    /\ matches = <<>>

-----------------------------------------------------------------------------
(* format_cli_command *)

\* str(n) of a natural number
RECURSIVE str_int(_)
str_int(n) ==
    LET digit == <<"0", "1", "2", "3", "4", "5", "6", "7", "8", "9">>
    IN  IF n < 10 THEN <<digit[n + 1]>>
        ELSE str_int(n \div 10) \o <<digit[(n % 10) + 1]>>

\* a value of the catalog document as an f-string prints it
format_value(v) ==
    IF "num" \in DOMAIN v THEN str_int(v.num)
    ELSE IF "str" \in DOMAIN v THEN v.str
    ELSE <<"N","o","n","e">>

\* tensor_parallel >= 1 in place of tensor_parallel > 1
wants_tensor_parallel_from_one(tensor_parallel) ==
    /\ IsNumber(tensor_parallel)
    /\ tensor_parallel.num # 0
    /\ tensor_parallel.num >= 1

\* tensor_parallel and tensor_parallel > 1; tensor_parallel is None (null)
\* when the record has no vllm_args.tensor_parallel_size
wants_tensor_parallel(tensor_parallel) ==
    /\ IsNumber(tensor_parallel)
    /\ tensor_parallel.num # 0
    /\ tensor_parallel.num > 1

\* the list vllm_flags
vllm_flags(h, spec, info) ==
    LET device_model_spec == IF "device_model_spec" \in DOMAIN spec
                             THEN h[spec["device_model_spec"]] ELSE EmptyDict
        max_context  == Get(device_model_spec, "max_context", [num |-> 65536])
        max_num_seqs == Get(device_model_spec, "max_num_seqs", [num |-> 16])
        block_size   == Get(device_model_spec, "block_size", [num |-> 64])
        tensor_parallel ==
            Get(Get(spec, "vllm_args", EmptyDict), "tensor_parallel_size",
                [null |-> 0])
    IN  << <<"-","-","m","o","d","e","l"," ">> \o info["path"],
           <<"-","-","h","o","s","t"," ","0",".","0",".","0",".","0">>,
           <<"-","-","p","o","r","t"," ","8","0","0","0">>,
           <<"-","-","m","a","x","-","m","o","d","e","l","-","l","e","n"," ">> \o format_value(max_context),
           <<"-","-","m","a","x","-","n","u","m","-","s","e","q","s"," ">> \o format_value(max_num_seqs),
           <<"-","-","b","l","o","c","k","-","s","i","z","e"," ">> \o format_value(block_size) >>
        \o IF wants_tensor_parallel(tensor_parallel)
           THEN << <<"-","-","t","e","n","s","o","r","-","p","a","r","a","l","l","e","l","-","s","i","z","e"," ">> \o format_value(tensor_parallel) >>
           ELSE <<>>

\* format_cli_command(spec, model_info): of commands['run'] the parts that
\* vary (names in the heading, the blackhole export, the flags), of
\* commands['test'] the model named in the request
format_cli_command(h, id, info) ==
    LET spec        == h[id]
        device_type == Get(spec, "device_type", <<"N","1","5","0">>)
    IN  [run |-> [model_name |-> Get(spec, "model_name", <<"U","n","k","n","o","w","n">>),
                  device_type |-> device_type,
                  blackhole |-> In(<<"P">>, upper(device_type)),
                  vllm_flags |-> vllm_flags(h, spec, info)],
         test |-> [model |-> Get(spec, "hf_model_repo", <<>>)]]

\* main: commands = format_cli_command(selected, model_info)
FormatCliCommand ==
    /\ pc = "command"
    /\ commands' = format_cli_command(heap, selected, model_info)
    /\ pc' = "commands"
    /\ UNCHANGED <<heap, specs, hardware, include_experimental, validated,
                   experimental, model_query, task, matches, selected,
                   metal_info, vllm_info, match_info, all_specs,
                   conservative_spec, raised, model_info, cache_vars, side_vars>>

-----------------------------------------------------------------------------
(* Inputs of format_cli_command *)

\* values of vllm_args in a catalog record
VllmArgs ==
    { EmptyDict } \cup
    { [tensor_parallel_size |-> v] :
        v \in { [null |-> 0], [num |-> 0], [num |-> 1], [num |-> 2],
                [num |-> 8] } }

\* values of device_model_spec in a selected record
CommandModelSpecs ==
    { EmptyDict,
      [max_context |-> [num |-> 100]],
      [max_num_seqs |-> [num |-> 3], block_size |-> [num |-> 32]],
      [max_context |-> [num |-> 67], max_num_seqs |-> [num |-> 2],
       block_size |-> [num |-> 64]] }

\* the selected records: every part format_cli_command reads present or not
CommandRecords ==
    { [k \in ks |-> CASE k = "device_type" -> dt
                      [] k = "model_name" -> <<"L","l","a","m","a","-","3",".","1","-","8","B","-","I","n","s","t","r","u","c","t">>
                      [] k = "hf_model_repo" -> <<"m","e","t","a","-","l","l","a","m","a","/","L","l","a","m","a","-","3",".","1","-","8","B","-","I","n","s","t","r","u","c","t">>
                      [] k = "device_model_spec" -> dms
                      [] k = "vllm_args" -> va] :
        ks \in { kk \in SUBSET {"device_type", "model_name", "hf_model_repo",
                                "device_model_spec", "vllm_args"} :
                   ("model_name" \in kk) = ("hf_model_repo" \in kk) },
        dt \in { <<"N","1","5","0">>, <<"p","1","0","0">> },
        dms \in CommandModelSpecs,
        va \in VllmArgs }

\* results of detect_model_download
ModelInfos ==
    { [path |-> <<"/","r","o","o","t","/","m","o","d","e","l","s","/","L","l","a","m","a","-","3",".","1","-","8","B","-","I","n","s","t","r","u","c","t">>, exists |-> TRUE],
      [path |-> <<"~","/","m","o","d","e","l","s","/","L","l","a","m","a","-","3",".","1","-","8","B","-","I","n","s","t","r","u","c","t">>, exists |-> FALSE] }

InitCommand ==
    /\ pc = "command"
    /\ \E rec \in CommandRecords : heap = LoadCatalog(<<rec>>)
    /\ specs = <<1>>
    /\ selected = 1
    /\ matches = <<1>>
    /\ model_info \in ModelInfos
    /\ all_specs = <<1>>
    /\ conservative_spec = 0
    /\ raised = ""
    /\ commands = EmptyDict
    /\ hardware = <<"N","1","5","0">>
    /\ include_experimental = FALSE
    /\ validated = <<1>>
    /\ experimental = <<>>
    /\ model_query = PyNone
    /\ task = <<"c","h","a","t">>
    /\ metal_info = EmptyDict
    /\ vllm_info = EmptyDict
    /\ match_info = EmptyDict
    /\ NoCache
    /\ NoSide

NextCommand == FormatCliCommand

SpecCommand == InitCommand /\ [][NextCommand]_vars

-----------------------------------------------------------------------------
(* Claims about format_cli_command *)

\* the flags of the run command
Flags == Ids(commands["run"]["vllm_flags"])

\* the tensor_parallel_size the selected record carries, if it is a number
CarriedDegree ==
    LET va == Get(heap[selected], "vllm_args", EmptyDict)
    IN  IF "tensor_parallel_size" \in DOMAIN va
           /\ "num" \in DOMAIN va["tensor_parallel_size"]
        THEN va["tensor_parallel_size"].num
        ELSE 0

\* C19: for a record without device_model_spec the flags are
\* --max-model-len 65536, --max-num-seqs 16 and --block-size 64, and for
\* every record a --tensor-parallel-size flag is among the flags exactly
\* when the record carries a degree greater than 1, and then names it.
C19_LaunchDefaults ==
    pc = "commands" =>
        /\ "device_model_spec" \notin DOMAIN heap[selected] =>
              {<<"-","-","m","a","x","-","m","o","d","e","l","-","l","e","n"," ">> \o <<"6","5","5","3","6">>,
               <<"-","-","m","a","x","-","n","u","m","-","s","e","q","s"," ">> \o <<"1","6">>,
               <<"-","-","b","l","o","c","k","-","s","i","z","e"," ">> \o <<"6","4">>} \subseteq Flags
        /\ (\E f \in Flags : startswith(f, <<"-","-","t","e","n","s","o","r","-","p","a","r","a","l","l","e","l","-","s","i","z","e"," ">>)) <=> CarriedDegree > 1
        /\ CarriedDegree = 2 => (<<"-","-","t","e","n","s","o","r","-","p","a","r","a","l","l","e","l","-","s","i","z","e"," ">> \o <<"2">>) \in Flags
        /\ CarriedDegree = 8 => (<<"-","-","t","e","n","s","o","r","-","p","a","r","a","l","l","e","l","-","s","i","z","e"," ">> \o <<"8">>) \in Flags

\* the command of a record with neither device_model_spec nor vllm_args
C19_Witness ==
    /\ pc = "commands"
    /\ "device_model_spec" \notin DOMAIN heap[selected]
    /\ "vllm_args" \notin DOMAIN heap[selected]
    /\ (<<"-","-","m","a","x","-","m","o","d","e","l","-","l","e","n"," ">> \o <<"6","5","5","3","6">>) \in Flags
    /\ Len(commands["run"]["vllm_flags"]) = 6

-----------------------------------------------------------------------------
(* fetch_model_specs and the cache files *)

\* age_seconds < 3600
CACHE_MAX_AGE == 3600

\* json.dump of a list of records: each record with its device_model_spec
\* written in place
Dump(h, list) ==
    [i \in 1..Len(list) |->
        LET spec == h[list[i]]
        IN  IF "device_model_spec" \in DOMAIN spec
            THEN Put(spec, "device_model_spec", h[spec["device_model_spec"]])
            ELSE spec]

\* document_saved dumping the records the program holds from its last pass
document_saved_from_memory(data_heap, data, h, list) == Dump(h, list)

\* json.dump(data, f): data is the object just parsed from the response;
\* h and list are the records held from an earlier pass, which it does not
\* read
document_saved(data_heap, data, h, list) == Dump(data_heap, data)

\* cache_valid taking an age of exactly 3600 seconds as fresh
cache_valid_inclusive(force_refresh, file, timestamp, clock) ==
    /\ ~force_refresh
    /\ file # <<>>
    /\ timestamp # <<>>
    /\ clock - timestamp[1] <= CACHE_MAX_AGE

\* the condition cache_valid, with both files read without error
cache_valid(force_refresh, file, timestamp, clock) ==
    /\ ~force_refresh
    /\ file # <<>>
    /\ timestamp # <<>>
    /\ clock - timestamp[1] < CACHE_MAX_AGE

\* fetch_model_specs(force_refresh): the document returned (<<>> for None),
\* the cache files afterwards, whether the network was tried and where the
\* result came from, and what became of reading and writing the cache.
\* read_ok: the timestamp and the cache file are read and parsed without an
\* exception (else cache_valid ends False). write is the outcome of the
\* "Save to cache" block: both files written, the timestamp write failed, or
\* nothing written
fetch_model_specs(force_refresh, file, timestamp, clock, source, read_ok, write, h, list) ==
    IF cache_valid(force_refresh, file, timestamp, clock) /\ read_ok
    THEN [data |-> file, cache_file |-> file, cache_timestamp |-> timestamp,
          network |-> FALSE, returned |-> "cache", read |-> "read",
          write |-> "not tried"]
    ELSE IF source = <<>>
    THEN [data |-> <<>>, cache_file |-> file, cache_timestamp |-> timestamp,
          network |-> TRUE, returned |-> "None",
          read |-> IF cache_valid(force_refresh, file, timestamp, clock)
                   THEN "failed" ELSE "not used",
          write |-> "not tried"]
    ELSE LET data_heap == LoadCatalog(source[1])
             data      == [i \in 1..Len(source[1]) |-> i]
         IN  [data |-> source,
              cache_file |->
                  IF write \in {"written", "no timestamp"}
                  THEN << document_saved(data_heap, data, h, list) >>
                  ELSE file,
              cache_timestamp |->
                  IF write = "written" THEN <<clock>> ELSE timestamp,
              network |-> TRUE, returned |-> "fetched",
              read |-> IF cache_valid(force_refresh, file, timestamp, clock)
                       THEN "failed" ELSE "not used",
              write |-> write]

\* main and TTJukeboxTUI.load_data: specs = fetch_model_specs(...), and
\* "if not specs" ends the pass
FetchModelSpecs ==
    /\ pc = "fetch"
    /\ \E force_refresh \in BOOLEAN :
       \E read_ok \in BOOLEAN :
       \E write \in {"written", "no timestamp", "failed"} :
          LET r == fetch_model_specs(force_refresh, cache_file, cache_timestamp,
                                     now, remote, read_ok, write, heap, specs)
          IN  /\ cache_file' = r.cache_file
              /\ cache_timestamp' = r.cache_timestamp
              /\ fetch_call' = [force_refresh |-> force_refresh,
                                read |-> r.read, write |-> r.write,
                                network |-> r.network, returned |-> r.returned]
              /\ IF r.data = <<>> \/ r.data[1] = <<>>
                 THEN heap' = <<>> /\ specs' = <<>> /\ pc' = "done"
                 ELSE /\ heap' = LoadCatalog(r.data[1])
                      /\ specs' = [i \in 1..Len(r.data[1]) |-> i]
                      /\ pc' = "filter"
    /\ validated' = <<>>
    /\ experimental' = <<>>
    /\ matches' = <<>>
    /\ all_specs' = <<>>
    /\ raised' = ""
    /\ UNCHANGED <<hardware, include_experimental, model_query, task, selected,
                   metal_info, vllm_info, match_info, conservative_spec,
                   model_info, commands, remote, now, argv, setup_vars,
                   tui_vars>>

\* bounds of the documents and of the clock
MaxCacheCatalog == 1

MaxNow == 3600

\* records of the remote document
CacheRecords ==
    { [device_type |-> <<"N","1","5","0">>, model_name |-> <<"L","l","a","m","a","-","3",".","1","-","8","B","-","I","n","s","t","r","u","c","t">>, status |-> <<"C","O","M","P","L","E","T","E">>,
       device_model_spec |-> [max_context |-> [num |-> 100],
                              max_num_seqs |-> [num |-> 3]]],
      [device_type |-> <<"N","3","0","0">>, model_name |-> <<"C","o","d","e","L","l","a","m","a","-","7","B">>, status |-> <<"E","X","P","E","R","I","M","E","N","T","A","L">>,
       device_model_spec |-> [max_num_seqs |-> [num |-> 1]]],
      [model_name |-> <<"L","l","a","m","a","-","3",".","1","-","8","B","-","I","n","s","t","r","u","c","t">>] }

\* the next pass: "r" in the TUI (action_refresh calls load_data) or the
\* next run of the script; time has passed and the remote document may have
\* changed or be out of reach
Refresh ==
    /\ pc \in {"filtered", "matched_name", "failed", "done"}
    /\ pc' = "fetch"
    /\ \E elapsed \in {0, 1800, 3600} :
          /\ now + elapsed <= MaxNow
          /\ now' = now + elapsed
    /\ remote' \in {<<>>} \cup { <<doc>> : doc \in Catalogs(CacheRecords, MaxCacheCatalog) }
    /\ UNCHANGED <<heap, specs, hardware, include_experimental, validated,
                   experimental, model_query, task, matches, selected,
                   metal_info, vllm_info, match_info, run_vars, cache_file,
                   cache_timestamp, side_vars>>

-----------------------------------------------------------------------------
(* Inputs of fetch_model_specs *)

InitCache ==
    /\ NoRun
    /\ NoSide
    /\ pc = "fetch"
    /\ remote \in {<<>>} \cup { <<doc>> : doc \in Catalogs(CacheRecords, MaxCacheCatalog) }
    /\ cache_file = <<>>
    /\ cache_timestamp = <<>>
    /\ now = 0
    /\ heap = <<>>
    /\ specs = <<>>
    /\ hardware = <<"N","1","5","0">>
    /\ include_experimental = TRUE
    /\ model_query = <<"l","l","a","m","a">>
    /\ task = PyNone
    /\ validated = <<>>
    /\ experimental = <<>>
    /\ matches = <<>>
    /\ selected = 0
    /\ metal_info = EmptyDict
    /\ vllm_info = EmptyDict
    /\ match_info = EmptyDict

NextCache ==
    \/ FetchModelSpecs
    \/ FilterByHardware
    \/ NoModels
    \/ CombineSpecs
    \/ MatchAllByName
    \/ Refresh

SpecCache == InitCache /\ [][NextCache]_vars

-----------------------------------------------------------------------------
(* Claims about the cache *)

\* the fields written during a pass
Annotations == {"match_score", "_compatibility_reason", "_is_experimental"}

\* a record of the program carries an annotation
Annotated == \E id \in 1..Len(heap) : DOMAIN heap[id] \cap Annotations # {}

\* C20: every step that changes the cache file leaves in it the document
\* the remote source holds at that moment, and no record of the cache file
\* has a match_score, _compatibility_reason or _is_experimental field,
\* whatever passes came before.
C20_CacheAsFetched ==
    [][cache_file' # cache_file =>
          /\ remote # <<>>
          /\ cache_file' = remote
          /\ \A i \in 1..Len(cache_file'[1]) :
                DOMAIN cache_file'[1][i] \cap Annotations = {}]_vars

\* a fetch is about to happen while the program holds annotated records of
\* an earlier pass and a cache file written before
C20_Witness ==
    /\ pc = "fetch"
    /\ Annotated
    /\ cache_file # <<>>
    /\ remote # <<>>
    /\ remote # cache_file

-----------------------------------------------------------------------------
(* Two matching passes over the same records *)

MaxPassCatalog == 2

\* records of a list that a caller hands to the matchers more than once
PassRecords ==
    { [device_type |-> <<"N","1","5","0">>, model_name |-> <<"L","l","a","m","a","-","3",".","1","-","8","B","-","I","n","s","t","r","u","c","t">>],
      [device_type |-> <<"N","1","5","0">>, model_name |-> <<"M","i","s","t","r","a","l","-","7","B">>],
      [model_name |-> <<"Q","w","e","n","-","7","B">>] }

\* the arguments of a pass: a name or a task
PassArguments ==
    { [model_query |-> q, task |-> PyNone] :
        q \in { <<"l","l","a","m","a">>, <<"L","l","a","m","a","-","3",".","1","-","8","B","-","I","n","s","t","r","u","c","t">>, <<"z","z">> } }
    \cup { [model_query |-> PyNone, task |-> k] : k \in { <<"c","h","a","t">>, <<"i","m","a","g","e">> } }

\* a caller holding the list of an earlier call starts another call on it:
\* match_model_name and match_task take the list as it is (lines 626, 673)
\* and write spec['match_score'] on its records
NextPass ==
    /\ pc \in {"matched_name", "matched_task"}
    /\ pc' = "match"
    /\ \E a \in PassArguments :
          /\ model_query' = a.model_query
          /\ task' = a.task
    /\ UNCHANGED <<heap, specs, hardware, include_experimental, validated,
                   experimental, matches, selected, metal_info, vllm_info,
                   match_info, run_vars, cache_vars, side_vars>>

InitPasses ==
    /\ NoRun
    /\ NoCache
    /\ NoSide
    /\ pc = "match"
    /\ heap \in Catalogs(PassRecords, MaxPassCatalog)
    /\ specs = ListOf(heap)
    /\ \E a \in PassArguments :
          /\ model_query = a.model_query
          /\ task = a.task
    /\ hardware = <<>>
    /\ include_experimental = FALSE
    /\ validated = <<>>
    /\ experimental = <<>>
    /\ matches = <<>>
    /\ selected = 0
    /\ metal_info = EmptyDict
    /\ vllm_info = EmptyDict
    /\ match_info = EmptyDict

NextPasses == MatchModelName \/ MatchTask \/ NextPass

SpecPasses == InitPasses /\ [][NextPasses]_vars

\* C21 as stated: a pass works on its own copy of the records, so the
\* records a pass is about to read carry no match_score written by another
\* pass.
C21_PassLocal ==
    pc = "match" => \A id \in Ids(specs) : "match_score" \notin DOMAIN heap[id]

-----------------------------------------------------------------------------
(* Claims about the freshness of the cache *)

\* before the call both cache files are there and the cache is less than
\* 3600 seconds old
FreshCache ==
    /\ cache_file # <<>>
    /\ cache_timestamp # <<>>
    /\ now - cache_timestamp[1] < 3600

\* a call of fetch_model_specs: the cached document is returned without a
\* network fetch exactly when force_refresh is false and the cache is fresh
\* and readable; otherwise the network is tried, a failure gives None and
\* leaves the cache files alone, a success gives the remote document
FetchCourse ==
    LET c == fetch_call'
        from_cache == ~c.force_refresh /\ FreshCache /\ c.read # "failed"
    IN  /\ from_cache <=> (c.returned = "cache" /\ ~c.network)
        /\ from_cache =>
              /\ cache_file' = cache_file
              /\ cache_timestamp' = cache_timestamp
              /\ heap' = IF cache_file[1] = <<>> THEN <<>>
                         ELSE LoadCatalog(cache_file[1])
        /\ ~from_cache =>
              /\ c.network
              /\ remote = <<>> =>
                    /\ c.returned = "None"
                    /\ heap' = <<>>
                    /\ cache_file' = cache_file
                    /\ cache_timestamp' = cache_timestamp
              /\ remote # <<>> =>
                    /\ c.returned = "fetched"
                    /\ heap' = IF remote[1] = <<>> THEN <<>>
                               ELSE LoadCatalog(remote[1])

\* C22 as stated: every successful network fetch rewrites the cache file
\* and its timestamp.
C22_FreshnessAlwaysRewrites ==
    [][pc = "fetch" /\ pc' # "fetch" =>
          /\ FetchCourse
          /\ (fetch_call'.network /\ remote # <<>>) =>
                cache_file' = remote /\ cache_timestamp' = <<now>>]_vars

\* C22, amended: a successful network fetch rewrites the cache file and its
\* timestamp when the files can be written; when the write fails the
\* fetched document is returned all the same and the timestamp is not
\* advanced.
C22_Freshness ==
    [][pc = "fetch" /\ pc' # "fetch" =>
          /\ FetchCourse
          /\ (fetch_call'.network /\ remote # <<>>) =>
                /\ fetch_call'.write = "written" =>
                      cache_file' = remote /\ cache_timestamp' = <<now>>
                /\ fetch_call'.write # "written" =>
                      cache_timestamp' = cache_timestamp]_vars

\* a call without force_refresh, 1800 seconds after the cache was written,
\* returned the cached document and did not try the network
C22_Witness ==
    /\ pc = "filter"
    /\ fetch_call # EmptyDict
    /\ ~fetch_call.force_refresh
    /\ fetch_call.returned = "cache"
    /\ ~fetch_call.network
    /\ now = 1800
    /\ cache_timestamp = <<0>>
    /\ remote # cache_file

-----------------------------------------------------------------------------
(* start-vllm-server.py: inject_defaults *)

\* s.rstrip('/')
RECURSIVE rstrip_slash(_)
rstrip_slash(s) ==
    IF s # <<>> /\ s[Len(s)] = "/" THEN rstrip_slash(SubSeq(s, 1, Len(s) - 1))
    ELSE s

\* os.path.basename(p): what follows the last '/'
basename(p) ==
    LET slashes == { i \in 1..Len(p) : p[i] = "/" }
        last    == IF slashes = {} THEN 0
                   ELSE CHOOSE i \in slashes : \A j \in slashes : j <= i
    IN  SubSeq(p, last + 1, Len(p))

\* list.index(x): the first position of x (x is in the list)
index(list, x) ==
    CHOOSE i \in 1..Len(list) : list[i] = x /\ \A j \in 1..(i - 1) : list[j] # x

\* the if/elif chain that picks the organisation of the served name
served_name_of(model_name) ==
    IF In(<<"Q","w","e","n">>, model_name) \/ In(<<"q","w","e","n">>, lower(model_name))
    THEN <<"Q","w","e","n","/">> \o model_name
    ELSE IF In(<<"g","e","m","m","a">>, lower(model_name))
    THEN <<"g","o","o","g","l","e","/">> \o model_name
    ELSE IF In(<<"L","l","a","m","a">>, model_name) \/ In(<<"l","l","a","m","a">>, lower(model_name))
    THEN <<"m","e","t","a","-","l","l","a","m","a","/">> \o model_name
    ELSE IF In(<<"M","i","s","t","r","a","l">>, model_name) \/ In(<<"m","i","s","t","r","a","l">>, lower(model_name))
    THEN <<"m","i","s","t","r","a","l","a","i","/">> \o model_name
    ELSE model_name

\* defaults, in dict order
defaults ==
    << [param |-> <<"-","-","m","a","x","-","m","o","d","e","l","-","l","e","n">>, value |-> <<"2","0","4","8">>],
       [param |-> <<"-","-","m","a","x","-","n","u","m","-","s","e","q","s">>, value |-> <<"1","6">>],
       [param |-> <<"-","-","b","l","o","c","k","-","s","i","z","e">>, value |-> <<"6","4">>] >>

\* not_given taking every parameter as missing
not_given_ever(args, param) == TRUE

\* param not in sys.argv
not_given(args, param) == ~Member(param, args)

\* for param, value in defaults.items() from position i on
RECURSIVE defaults_loop(_, _)
defaults_loop(args, i) ==
    IF i > Len(defaults) THEN args
    ELSE defaults_loop(IF not_given(args, defaults[i].param)
                       THEN args \o <<defaults[i].param, defaults[i].value>>
                       ELSE args,
                       i + 1)

\* inject_defaults() on sys.argv; sys.argv[model_idx + 1] raises IndexError
\* when --model is the last argument, and the except clause passes
inject_defaults(args) ==
    IF ~Member(<<"-","-","m","o","d","e","l">>, args) THEN args
    ELSE LET model_idx == index(args, <<"-","-","m","o","d","e","l">>)
         IN  IF model_idx + 1 > Len(args) THEN args
             ELSE LET model_path == args[model_idx + 1]
                      model_name == basename(rstrip_slash(model_path))
                      named == IF not_given(args, <<"-","-","s","e","r","v","e","d","-","m","o","d","e","l","-","n","a","m","e">>)
                               THEN args \o <<<<"-","-","s","e","r","v","e","d","-","m","o","d","e","l","-","n","a","m","e">>,
                                              served_name_of(model_name)>>
                               ELSE args
                  IN  defaults_loop(named, 1)

\* __main__: Step 2, inject_defaults()
InjectDefaults ==
    /\ pc = "start"
    /\ argv' = inject_defaults(argv)
    /\ pc' = "injected"
    /\ UNCHANGED <<heap, specs, hardware, include_experimental, validated,
                   experimental, model_query, task, matches, selected,
                   metal_info, vllm_info, match_info, run_vars, cache_vars,
                   fetch_call, setup_vars, tui_vars>>

-----------------------------------------------------------------------------
(* Inputs of inject_defaults *)

MaxArgs == 4

\* words of a command line
Words ==
    { <<"-","-","m","o","d","e","l">>, <<"~","/","m","o","d","e","l","s","/","Q","w","e","n","3","-","0",".","6","B">>, <<"/","m","/","g","e","m","m","a","-","3","-","1","b","-","i","t","/">>,
      <<"L","l","a","m","a","-","3",".","1","-","8","B">>, <<"-","-","s","e","r","v","e","d","-","m","o","d","e","l","-","n","a","m","e">>, <<"-","-","m","a","x","-","m","o","d","e","l","-","l","e","n">>,
      <<"-","-","m","a","x","-","m","o","d","e","l","-","l","e","n","=","8","1","9","2">>, <<"-","-","m","a","x","-","n","u","m","-","s","e","q","s">>, <<"-","-","b","l","o","c","k","-","s","i","z","e">>,
      <<"8","1","9","2">> }

InitServer ==
    /\ NoRun
    /\ NoCache
    /\ NoSetup
    /\ NoTui
    /\ fetch_call = EmptyDict
    /\ pc = "start"
    /\ \E rest \in Catalogs(Words, MaxArgs) :
          argv = <<<<"s","t","a","r","t","-","v","l","l","m","-","s","e","r","v","e","r",".","p","y">>>> \o rest
    /\ heap = <<>>
    /\ specs = <<>>
    /\ hardware = <<>>
    /\ include_experimental = FALSE
    /\ validated = <<>>
    /\ experimental = <<>>
    /\ model_query = PyNone
    /\ task = PyNone
    /\ matches = <<>>
    /\ selected = 0
    /\ metal_info = EmptyDict
    /\ vllm_info = EmptyDict
    /\ match_info = EmptyDict

NextServer == InjectDefaults

SpecServer == InitServer /\ [][NextServer]_vars

-----------------------------------------------------------------------------
(* Claims about inject_defaults *)

\* the four flags inject_defaults may add
InjectedFlags ==
    { <<"-","-","s","e","r","v","e","d","-","m","o","d","e","l","-","n","a","m","e">>, <<"-","-","m","a","x","-","m","o","d","e","l","-","l","e","n">>, <<"-","-","m","a","x","-","n","u","m","-","s","e","q","s">>,
      <<"-","-","b","l","o","c","k","-","s","i","z","e">> }

\* --model is in the list and a word follows its first occurrence
ModelGiven(args) ==
    \E i \in 1..(Len(args) - 1) :
        args[i] = <<"-","-","m","o","d","e","l">> /\ \A j \in 1..(i - 1) : args[j] # <<"-","-","m","o","d","e","l">>

-----------------------------------------------------------------------------
(* main from the selected record on: detect_model_download, the setup
   decision, execute_setup, format_cli_command *)

\* detect_model_download(spec): None (here the empty dict) without
\* hf_model_repo, else the first model directory found, else the default
\* path with exists False
detect_model_download(spec, on_disk) ==
    LET hf_repo    == Get(spec, "hf_model_repo", <<>>)
        model_name == Get(spec, "model_name", <<>>)
    IN  IF ~Truthy(hf_repo) THEN EmptyDict
        ELSE [path |-> <<"~","/","m","o","d","e","l","s","/">> \o model_name, exists |-> on_disk]

\* main: model_info = detect_model_download(selected)
DetectModelDownload ==
    /\ pc = "selected"
    /\ model_info' = detect_model_download(heap[selected], downloaded)
    /\ pc' = "check_env"
    /\ UNCHANGED <<heap, specs, hardware, include_experimental, validated,
                   experimental, model_query, task, matches, selected,
                   metal_info, vllm_info, match_info, all_specs,
                   conservative_spec, raised, commands, cache_vars, side_vars>>

\* s.strip() for blanks
RECURSIVE strip(_)
strip(s) ==
    IF s # <<>> /\ s[1] = " " THEN strip(Tail(s))
    ELSE IF s # <<>> /\ s[Len(s)] = " " THEN strip(SubSeq(s, 1, Len(s) - 1))
    ELSE s

\* confirmed accepting every answer
confirmed_any(response) == TRUE

\* not (response and response != 'y' and response != 'yes')
confirmed(response) ==
    response = <<>> \/ response = <<"y">> \/ response = <<"y","e","s">>

\* main, lines 1516-1546: needs_setup and the confirmation. When the
\* environment check reports no need of setup, model_info is subscripted,
\* which raises TypeError on None; the exception ends the script in the
\* except clause at its end
ConfirmSetup ==
    /\ pc = "env_checked"
    /\ IF ~match_info["needs_setup"] /\ "exists" \notin DOMAIN model_info
       THEN raised' = "TypeError" /\ pc' = "failed"
       ELSE /\ raised' = raised
            /\ LET needs_setup == match_info["needs_setup"] \/ ~model_info["exists"]
               IN  pc' = IF ~needs_setup THEN "command"
                         ELSE IF force THEN "setup"
                         ELSE IF ~stdin.tty THEN "done"
                         ELSE IF "line" \notin DOMAIN stdin THEN "done"
                         ELSE IF confirmed(lower(strip(stdin.line))) THEN "setup"
                         ELSE "done"
    /\ UNCHANGED <<heap, specs, hardware, include_experimental, validated,
                   experimental, model_query, task, matches, selected,
                   metal_info, vllm_info, match_info, all_specs,
                   conservative_spec, model_info, commands, cache_vars,
                   side_vars>>

-----------------------------------------------------------------------------
(* execute_setup *)

\* execute_setup.commits_match: "match", "differ", or "raise" when
\* len(current) is taken of None
setup_commits_match(current, required) ==
    IF current = <<"u","n","k","n","o","w","n">>
       \/ required \in { <<"m","a","i","n">>, <<"d","e","v">>, <<"N","o","n","e">>, PyNone }
    THEN "differ"
    ELSE IF current = PyNone THEN "raise"
    ELSE LET min_len == min(Len(current), Len(required), 7)
         IN  IF Prefix(current, min_len) = Prefix(required, min_len)
             THEN "match" ELSE "differ"

\* current_metal_commit against metal_commit
metal_commit_check ==
    setup_commits_match(
        IF DOMAIN metal_info = {} THEN <<"u","n","k","n","o","w","n">>
        ELSE Get(metal_info, "commit", <<"u","n","k","n","o","w","n">>),
        Get(heap[selected], "tt_metal_commit", <<"m","a","i","n">>))

\* current_vllm_commit against vllm_commit
vllm_commit_check ==
    setup_commits_match(
        IF DOMAIN vllm_info = {} THEN <<"u","n","k","n","o","w","n">>
        ELSE Get(vllm_info, "commit", <<"u","n","k","n","o","w","n">>),
        Get(heap[selected], "vllm_commit", <<"d","e","v">>))

\* the MODEL DOWNLOAD block: where it starts, or the return True behind it
model_block ==
    IF ~model_info["exists"] /\ Truthy(Get(heap[selected], "hf_model_repo", <<>>))
    THEN IF hf_token THEN "download" ELSE "whoami"
    ELSE "True"

\* the VLLM CHECKOUT block: where it starts, or what follows it
vllm_block ==
    CASE vllm_commit_check = "raise"  -> "False"
      [] vllm_commit_check = "differ" -> "fetch_vllm"
      [] vllm_commit_check = "match"  -> model_block

\* the TT-METAL CHECKOUT block: where it starts, or what follows it
metal_block ==
    CASE metal_commit_check = "raise"  -> "False"
      [] metal_commit_check = "differ" -> "stash"
      [] metal_commit_check = "match"  -> vllm_block

\* the subprocess.run calls of execute_setup, in the order of the text
SetupSteps ==
    << "stash", "fetch_metal", "checkout_metal", "submodule", "build",
       "rebuild", "fetch_vllm", "checkout_vllm", "whoami", "download" >>

\* after_step going on after a failed fetch or checkout
after_step_lenient(at, outcome) ==
    IF outcome = "timeout" THEN "False"
    ELSE CASE at = "stash"          -> "fetch_metal"
           [] at = "fetch_metal"    -> "checkout_metal"
           [] at = "checkout_metal" -> "submodule"
           [] at = "submodule"      -> "build"
           [] at = "build"    -> IF outcome = "ok" THEN vllm_block ELSE "rebuild"
           [] at = "rebuild"  -> IF outcome = "ok" THEN vllm_block ELSE "False"
           [] at = "fetch_vllm"     -> "checkout_vllm"
           [] at = "checkout_vllm"  -> model_block
           [] at = "whoami"   -> IF outcome = "ok" THEN "download" ELSE "False"
           [] at = "download" -> IF outcome = "ok" THEN "True" ELSE "False"

\* what follows a subprocess.run call: the next call, or the value returned.
\* TimeoutExpired is caught by the except clause, which returns False; the
\* return code of stash and of the submodule update does not stop the run
after_step(at, outcome) ==
    IF outcome = "timeout" THEN "False"
    ELSE CASE at = "stash"          -> "fetch_metal"
           [] at = "fetch_metal"    -> IF outcome = "ok" THEN "checkout_metal" ELSE "False"
           [] at = "checkout_metal" -> IF outcome = "ok" THEN "submodule" ELSE "False"
           [] at = "submodule"      -> "build"
           [] at = "build"    -> IF outcome = "ok" THEN vllm_block ELSE "rebuild"
           [] at = "rebuild"  -> IF outcome = "ok" THEN vllm_block ELSE "False"
           [] at = "fetch_vllm"     -> IF outcome = "ok" THEN "checkout_vllm" ELSE "False"
           [] at = "checkout_vllm"  -> IF outcome = "ok" THEN model_block ELSE "False"
           [] at = "whoami"   -> IF outcome = "ok" THEN "download" ELSE "False"
           [] at = "download" -> IF outcome = "ok" THEN "True" ELSE "False"

\* go to the next call, or return: main goes on to the command after True
\* and returns 1 after False
SetupGoto(next) ==
    IF next = "True" THEN success' = "True" /\ pc' = "command"
    ELSE IF next = "False" THEN success' = "False" /\ pc' = "done"
    ELSE success' = success /\ pc' = next

\* main: success = execute_setup(selected, model_info, metal_info,
\* vllm_info), up to its first subprocess.run call. model_info['path'] is
\* read before the try block: on None the TypeError leaves execute_setup
\* and ends the script
ExecuteSetup ==
    /\ pc = "setup"
    /\ IF "path" \notin DOMAIN model_info
       THEN raised' = "TypeError" /\ pc' = "failed" /\ success' = success
       ELSE raised' = raised /\ SetupGoto(metal_block)
    /\ UNCHANGED <<heap, specs, hardware, include_experimental, validated,
                   experimental, model_query, task, matches, selected,
                   metal_info, vllm_info, match_info, all_specs,
                   conservative_spec, model_info, commands, cache_vars,
                   fetch_call, argv, force, stdin, hf_token, downloaded,
                   setup_steps, tui_vars>>

\* one subprocess.run call of execute_setup and what the code does with its
\* outcome
SetupStep ==
    /\ Member(pc, SetupSteps)
    /\ \E outcome \in {"ok", "failed", "timeout"} :
          /\ setup_steps' = Append(setup_steps, [step |-> pc, outcome |-> outcome])
          /\ SetupGoto(after_step(pc, outcome))
    /\ UNCHANGED <<heap, specs, hardware, include_experimental, validated,
                   experimental, model_query, task, matches, selected,
                   metal_info, vllm_info, match_info, run_vars, cache_vars,
                   fetch_call, argv, force, stdin, hf_token, downloaded,
                   tui_vars>>

-----------------------------------------------------------------------------
(* Inputs of the setup *)

\* the selected records: required commits and the artifact repository
SetupRecords ==
    { [k \in ks |-> CASE k = "model_name" -> <<"Q","w","e","n","3","-","8","B">>
                      [] k = "tt_metal_commit" -> a
                      [] k = "vllm_commit" -> b
                      [] k = "hf_model_repo" -> r] :
        ks \in { kk \in SUBSET {"model_name", "tt_metal_commit", "vllm_commit",
                                "hf_model_repo"} : "model_name" \in kk },
        a \in { <<"a","b","c","1","2","3","4","9","9","9">>, <<>> },
        b \in { <<"a","b","c","1","2","9","9","9","9","9">>, <<"N","o","n","e">> },
        r \in { <<"Q","w","e","n","/","Q","w","e","n","3","-","8","B">>, <<>> } }

\* the toolchain statuses of the setup
SetupInfos ==
    { NoInfo, [path |-> <<"/">>, commit |-> <<"a","b","c","1","2","3","4","5","6","7">>],
      [path |-> <<"/">>, commit |-> <<"a","b","c","1","2","9","9">>],
      [path |-> <<"/">>, commit |-> PyNone] }

\* the terminal
Terminals ==
    { [tty |-> FALSE], [tty |-> TRUE] }
    \cup { [tty |-> TRUE, line |-> l] :
             l \in { <<>>, <<"y">>, <<" ","Y","e","s"," ">>, <<"n">>, <<"y","e","p">> } }

InitSetup ==
    /\ NoRun
    /\ NoCache
    /\ fetch_call = EmptyDict
    /\ argv = <<>>
    /\ NoTui
    /\ pc = "selected"
    /\ \E r \in SetupRecords : heap = <<r>>
    /\ specs = <<1>>
    /\ matches = <<1>>
    /\ selected = 1
    /\ metal_info \in SetupInfos
    /\ vllm_info \in SetupInfos
    /\ force \in BOOLEAN
    /\ stdin \in Terminals
    /\ hf_token \in BOOLEAN
    /\ downloaded \in BOOLEAN
    /\ setup_steps = <<>>
    /\ success = ""
    /\ hardware = <<"N","1","5","0">>
    /\ include_experimental = FALSE
    /\ validated = <<1>>
    /\ experimental = <<>>
    /\ model_query = PyNone
    /\ task = <<"c","h","a","t">>
    /\ match_info = EmptyDict

NextSetup ==
    \/ DetectModelDownload
    \/ CheckEnvironmentMatch
    \/ ConfirmSetup
    \/ ExecuteSetup
    \/ SetupStep
    \/ FormatCliCommand

SpecSetup == InitSetup /\ [][NextSetup]_vars

-----------------------------------------------------------------------------
(* C24 *)

\* the place of a call in the text of execute_setup
StepPlace(step) == CHOOSE i \in 1..Len(SetupSteps) : SetupSteps[i] = step

\* a call whose failure the code answers with return False
Stops(e) ==
    \/ /\ e.outcome = "failed"
       /\ e.step \in {"fetch_metal", "checkout_metal", "rebuild", "fetch_vllm",
                      "checkout_vllm", "whoami", "download"}
    \/ /\ e.outcome = "timeout"
       /\ e.step \notin {"stash", "submodule"}

\* a call that went well with outcome ok somewhere in the run
RanOk(step) ==
    \E i \in 1..Len(setup_steps) :
        setup_steps[i] = [step |-> step, outcome |-> "ok"]

\* C24: the calls of execute_setup are started in the order tt-metal checkout,
\* tt-metal build, vLLM checkout, model download; a failed or timed-out fetch,
\* checkout, build (retried once at most, right after the failed build), login
\* check or download is the last call started and the function returns False;
\* it returns True only when every call it needed went well, a failed stash or
\* submodule update apart
C24_FailStop ==
    LET n == Len(setup_steps)
    IN  /\ \A i, j \in 1..n :
              i < j => StepPlace(setup_steps[i].step) < StepPlace(setup_steps[j].step)
        /\ \A i \in 1..n :
              Stops(setup_steps[i]) => i = n /\ success = "False" /\ pc = "done"
        /\ \A i \in 1..n :
              setup_steps[i].step = "rebuild" =>
                  i > 1 /\ setup_steps[i - 1] = [step |-> "build", outcome |-> "failed"]
        /\ success = "True" =>
              /\ \A i \in 1..n :
                    \/ setup_steps[i].outcome = "ok"
                    \/ /\ setup_steps[i].outcome = "failed"
                       /\ setup_steps[i].step \in {"stash", "submodule"}
                    \/ /\ setup_steps[i] = [step |-> "build", outcome |-> "failed"]
                       /\ i < n
                       /\ setup_steps[i + 1] = [step |-> "rebuild", outcome |-> "ok"]
              /\ metal_commit_check = "differ" =>
                    /\ RanOk("fetch_metal") /\ RanOk("checkout_metal")
                    /\ RanOk("build") \/ RanOk("rebuild")
              /\ vllm_commit_check = "differ" =>
                    RanOk("fetch_vllm") /\ RanOk("checkout_vllm")
              /\ model_block # "True" => RanOk("download")
              /\ metal_commit_check # "raise" /\ vllm_commit_check # "raise"

\* the submodule update failed, the build failed, the retry failed too:
\* nothing was started after it and the function returned False
C24_Witness ==
    /\ Len(setup_steps) = 6
    /\ setup_steps[4] = [step |-> "submodule", outcome |-> "failed"]
    /\ setup_steps[5] = [step |-> "build", outcome |-> "failed"]
    /\ setup_steps[6] = [step |-> "rebuild", outcome |-> "failed"]
    /\ success = "False"
    /\ pc = "done"

-----------------------------------------------------------------------------
(* C25 *)

\* execute_setup was invoked
SetupInvoked ==
    pc = "setup" \/ Member(pc, SetupSteps) \/ setup_steps # <<>> \/ success # ""

\* the setup decision was reached and taken
Decided == pc \notin {"selected", "check_env", "env_checked", "failed"}

\* the environment check reports needs_setup or the artifact is missing
SetupNeeded == match_info["needs_setup"] \/ ~model_info["exists"]

\* the answer read from an interactive terminal, spaces around it and the
\* case of its letters apart, is empty, y or yes
AnsweredYes ==
    /\ stdin.tty
    /\ "line" \in DOMAIN stdin
    /\ lower(strip(stdin.line)) \in { <<>>, <<"y">>, <<"y","e","s">> }

\* C25: main invokes execute_setup only when setup is needed and only with
\* --force or after the answer empty, y or yes; when setup is needed and,
\* without --force, stdin is no terminal or the answer is another one, no
\* setup step is run and no launch command is produced; the launch command is
\* produced only when setup was not needed or execute_setup returned True
C25_SetupConfirmed ==
    /\ SetupInvoked => SetupNeeded /\ (force \/ AnsweredYes)
    /\ Decided /\ SetupNeeded /\ ~force /\ ~AnsweredYes =>
          /\ ~SetupInvoked
          /\ commands = EmptyDict
          /\ pc = "done"
    /\ commands # EmptyDict => ~SetupNeeded \/ success = "True"
    /\ Decided /\ ~SetupNeeded => ~SetupInvoked

\* the setup ran after the answer ' Yes ' and the launch command follows it
C25_Witness ==
    /\ pc = "commands"
    /\ ~force
    /\ stdin = [tty |-> TRUE, line |-> <<" ","Y","e","s"," ">>]
    /\ setup_steps # <<>>
    /\ success = "True"
    /\ commands # EmptyDict

-----------------------------------------------------------------------------
(* C26 *)

\* C26: execute_setup skips the checkout of a toolchain (its comparison of
\* the installed with the required commit says they match) only if
\* check_environment_match reports that toolchain compatible for the same
\* record and the same toolchain statuses
C26_SkipOnlyIfCompatible ==
    SetupInvoked =>
        /\ metal_commit_check = "match" => match_info["metal_compatible"]
        /\ vllm_commit_check = "match" => match_info["vllm_compatible"]

-----------------------------------------------------------------------------
(* C27 *)

\* C27: for every selected record, one without hf_model_repo or with an
\* empty one included, detect_model_download yields a structure with path
\* and exists, and main goes through the setup decision to the command
\* without raising
C27_ArtifactLookupTotal ==
    /\ pc # "selected" => DOMAIN model_info = {"path", "exists"}
    /\ raised = ""
    /\ pc # "failed"

-----------------------------------------------------------------------------
(* tt-jukebox-tui.py: the model table, the detail panel, the command panel *)

\* env_match.get('overall_match'): None, which is falsy, without the key
overall_match(env_match) ==
    IF "overall_match" \in DOMAIN env_match THEN env_match["overall_match"]
    ELSE FALSE

\* refresh_table: match_indicator
match_indicator(env_match) ==
    IF overall_match(env_match) THEN "check mark" ELSE "warning sign"

\* ModelDetailPanel.show_model: the line under 'Environment Match:'
match_status_line(env_match) ==
    IF overall_match(env_match) THEN "Current environment matches"
    ELSE "Setup required"

\* refresh_table: one row per record of filtered_specs
refresh_table(h, list, metal, vllm) ==
    [i \in 1..Len(list) |->
        match_indicator(check_environment_match(h[list[i]], metal, vllm))]

\* filter_specs: the records whose name, device or version holds the query
filter_specs(h, list, query) ==
    IF query = <<>> THEN list
    ELSE LET q == lower(query)
             holds(id) ==
                 \/ In(q, lower(Get(h[id], "model_name", <<>>)))
                 \/ In(q, lower(Get(h[id], "device_type", <<>>)))
                 \/ In(q, lower(Get(h[id], "version", <<>>)))
         IN  SelectSeq(list, holds)

\* CommandPreviewPanel.show_command: commands.get('server', '')
shown_command(cmds) ==
    IF "server" \in DOMAIN cmds THEN [command |-> cmds["server"]]
    ELSE [str |-> <<>>]

\* on_mount: setup_table, which ends in refresh_table
SetupTable ==
    /\ pc = "mounted"
    /\ table' = refresh_table(heap, specs, metal_info, vllm_info)
    /\ pc' = "table"
    /\ UNCHANGED <<heap, specs, hardware, include_experimental, validated,
                   experimental, model_query, task, matches, selected,
                   metal_info, vllm_info, match_info, run_vars, cache_vars,
                   fetch_call, argv, setup_vars, detail, current_command,
                   notice>>

\* on_search_changed: filter_specs(event.value) and its refresh_table
OnSearchChanged ==
    /\ pc \in {"table", "row_selected", "copied"}
    /\ \E query \in { <<>>, <<"Q","W","E","N">>, <<"n","1","5","0">>, <<"0",".","2">> } :
          /\ model_query' = query
          /\ specs' = filter_specs(heap, validated, query)
          /\ table' = refresh_table(heap, specs', metal_info, vllm_info)
    /\ pc' = "table"
    /\ UNCHANGED <<heap, hardware, include_experimental, validated,
                   experimental, task, matches, selected, metal_info,
                   vllm_info, match_info, run_vars, cache_vars, fetch_call,
                   argv, setup_vars, detail, current_command, notice>>

\* on_row_selected: the detail panel, then the command panel when
\* detect_model_download gives a location
OnRowSelected ==
    /\ pc \in {"table", "row_selected", "copied"}
    /\ \E row \in 1..Len(specs) :
          /\ selected' = specs[row]
          /\ match_info' = check_environment_match(heap[specs[row]], metal_info,
                                                   vllm_info)
          /\ detail' = match_status_line(match_info')
          /\ model_info' = detect_model_download(heap[specs[row]], downloaded)
          /\ IF DOMAIN model_info' # {}
             THEN /\ commands' = format_cli_command(heap, specs[row], model_info')
                  /\ current_command' = shown_command(commands')
             ELSE UNCHANGED <<commands, current_command>>
    /\ pc' = "row_selected"
    /\ UNCHANGED <<heap, specs, hardware, include_experimental, validated,
                   experimental, model_query, task, matches, metal_info,
                   vllm_info, all_specs, conservative_spec, raised, cache_vars,
                   fetch_call, argv, setup_vars, table, notice>>

\* action_copy_command: the clipboard program may fail
ActionCopyCommand ==
    /\ pc = "row_selected"
    /\ \E clipboard \in {"ok", "fails"} :
          notice' = IF "command" \in DOMAIN current_command
                    THEN IF clipboard = "ok" THEN "Command copied to clipboard!"
                         ELSE "Copy failed. Command:"
                    ELSE "No command to copy"
    /\ pc' = "copied"
    /\ UNCHANGED <<heap, specs, hardware, include_experimental, validated,
                   experimental, model_query, task, matches, selected,
                   metal_info, vllm_info, match_info, run_vars, cache_vars,
                   fetch_call, argv, setup_vars, table, detail,
                   current_command>>

-----------------------------------------------------------------------------
(* Inputs of the TUI *)

MaxTuiCatalog == 2

\* the records of the table
TuiRecords ==
    { [k \in ks |-> CASE k = "model_name" -> n
                      [] k = "device_type" -> <<"N","1","5","0">>
                      [] k = "version" -> <<"0",".","2",".","0">>
                      [] k = "tt_metal_commit" -> <<"a","b","c","1","2","3","4","9","9","9">>
                      [] k = "vllm_commit" -> <<"a","b","c","1","2","9","9","9","9","9">>
                      [] k = "hf_model_repo" -> <<"Q","w","e","n","/","Q","w","e","n","3","-","8","B">>] :
        ks \in { {"model_name", "device_type", "version", "tt_metal_commit",
                  "vllm_commit"},
                 {"model_name", "device_type", "version", "tt_metal_commit",
                  "vllm_commit", "hf_model_repo"} },
        n \in { <<"Q","w","e","n","3","-","8","B">>, <<"L","l","a","m","a","-","3",".","1","-","8","B">> } }



\* the state after load_data: all_specs is the validated list and
\* filtered_specs a copy of it
InitTui ==
    /\ NoRun
    /\ NoCache
    /\ NoSide
    /\ pc = "mounted"
    /\ \E n \in 1..MaxTuiCatalog : heap \in [1..n -> TuiRecords]
    /\ validated = [i \in 1..Len(heap) |-> i]
    /\ specs = validated
    /\ experimental = <<>>
    /\ hardware = <<"N","1","5","0">>
    /\ include_experimental = TRUE
    /\ model_query = <<>>
    /\ task = <<"c","h","a","t">>
    /\ matches = <<>>
    /\ selected = 0
    /\ metal_info \in SetupInfos
    /\ vllm_info \in SetupInfos
    /\ match_info = EmptyDict

NextTui ==
    \/ SetupTable
    \/ OnSearchChanged
    \/ OnRowSelected
    \/ ActionCopyCommand

SpecTui == InitTui /\ [][NextTui]_vars

-----------------------------------------------------------------------------
(* C28 *)

\* C28: every row of the table shows the check mark exactly when
\* check_environment_match reports needs_setup = false for its record and
\* the detected toolchains, the warning sign otherwise; the detail panel says
\* 'Current environment matches' under the same condition
C28_IndicatorIsNeedsSetup ==
    /\ pc # "mounted" =>
          /\ Len(table) = Len(specs)
          /\ \A i \in 1..Len(specs) :
                LET env_match == check_environment_match(heap[specs[i]],
                                                         metal_info, vllm_info)
                IN  table[i] = IF env_match["needs_setup"] THEN "warning sign"
                               ELSE "check mark"
    /\ pc \in {"row_selected", "copied"} =>
          detail = IF match_info["needs_setup"] THEN "Setup required"
                   ELSE "Current environment matches"

-----------------------------------------------------------------------------
(* C29 *)

\* C29: after a row is selected for a record whose artifact location is
\* available, current_command of the command panel is the run command of
\* format_cli_command for that record, and the copy action copies it
\* instead of saying that there is no command to copy
C29_CommandShown ==
    pc \in {"row_selected", "copied"} /\ DOMAIN model_info # {} =>
        /\ current_command =
              [command |-> format_cli_command(heap, selected, model_info)["run"]]
        /\ pc = "copied" => notice # "No command to copy"

-----------------------------------------------------------------------------
(* C30 *)

\* any(word.startswith(query) for word in model_name.split('-')), on the
\* lower-cased query and name of a record
StartsAToken(q, id) ==
    \E w \in 1..Len(split(lower(NameOf(id)), "-")) :
        startswith(split(lower(NameOf(id)), "-")[w], lower(q))

====
